---- MODULE Spec2Model ----
(***************************************************************************)
(* Scholarbase API: the in-memory record stores and the route handlers     *)
(* that read and mutate them (routes/enrollment.ts, course.ts, user.ts).   *)
(*                                                                         *)
(* Conventions of the model                                                *)
(*   - a request runs to completion: one action is one whole handler;      *)
(*   - an optional value (a query parameter, a body field) is a sequence   *)
(*     of length 0 (absent, JS undefined) or 1 (present);                  *)
(*   - text that the code inspects character by character (search text,    *)
(*     numeric query parameters) is a sequence of one-character strings;   *)
(*     text that is only compared for equality is a TLA+ string;           *)
(*   - a JS number is a record [kind, v]: a finite integer, NaN, Infinity  *)
(*     or -Infinity; prices are held in hundredths (99.99 is 9999) and     *)
(*     ratings in tenths (4.8 is 48).                                      *)
(***************************************************************************)
EXTENDS Integers, Sequences, FiniteSets, TLC

VARIABLES
    mockEnrollments,   \* the enrollment store (routes/enrollment.ts)
    mockCourses,       \* the course store (routes/course.ts)
    clock,             \* the last reading of the system clock, in ms
    request,           \* the request handled last
    response,          \* the response sent to it
    before,            \* the enrollment store as it was when that request arrived
    filteredCourses,   \* the local filteredCourses of GET /courses when it responds,
                       \* empty after any other handler
    mockUsers,         \* the user store (routes/user.ts)
    mockStudents,      \* the student store (routes/user.ts)
    nodeEnv            \* process.env.NODE_ENV, None when it is not set

vars == <<mockEnrollments, mockCourses, clock, request, response, before,
          filteredCourses, mockUsers, mockStudents, nodeEnv>>

\* the state of routes/user.ts and the environment of the process
userVars == <<mockUsers, mockStudents, nodeEnv>>

----------------------------------------------------------------------------
(* Bounds *)

\* The clock readings the model distinguishes after process start.
MaxTicks == 1

\* The most query parameters one GET /courses request supplies.
MaxSupplied == 2

\* The most records of a course store the query is checked on.
MaxCourses == 3

\* The most records the enrollment store holds.
MaxEnrollments == 3

\* Date.now() when the process starts (any reading past the seeded ids).
ProcessStart == 10

\* The most fields the body of one PUT /users/profile/:userId supplies.
MaxFields == 2

\* The most student profiles created after the process started.
MaxProfiles == 1

----------------------------------------------------------------------------
(* Optional values, JS numbers *)

None == <<>>
Some(v) == <<v>>
Present(o) == Len(o) > 0
Val(o) == o[1]

Min(a, b) == IF a < b THEN a ELSE b
Max(a, b) == IF a > b THEN a ELSE b

Num(n) == [kind |-> "num", v |-> n]
NaN == [kind |-> "NaN", v |-> 0]
PosInfinity == [kind |-> "Infinity", v |-> 1]
NegInfinity == [kind |-> "-Infinity", v |-> -1]
IsNum(x) == x.kind = "num"

\* a + b on JS numbers (the operands here are never infinite)
JsAdd(a, b) == IF IsNum(a) /\ IsNum(b) THEN Num(a.v + b.v) ELSE NaN

\* x >= y and x <= y on JS numbers: every comparison with NaN is false
JsGe(x, y) == IsNum(x) /\ IsNum(y) /\ x.v >= y.v
JsLe(x, y) == IsNum(x) /\ IsNum(y) /\ x.v <= y.v

\* floor(a / b) for integers a and b, b # 0
FloorDiv(a, b) ==
    IF b > 0 THEN a \div b ELSE (-a) \div (-b)

\* Mutant: pages are counted from zero
JsPageFromZero(a, b) ==
    IF ~(IsNum(a) /\ IsNum(b)) THEN NaN
    ELSE IF b.v = 0
         THEN IF a.v = 0 THEN NaN
              ELSE IF a.v > 0 THEN PosInfinity ELSE NegInfinity
         ELSE Num(FloorDiv(a.v, b.v))

\* Math.floor(a / b) + 1 on JS numbers
JsPage(a, b) ==
    IF ~(IsNum(a) /\ IsNum(b)) THEN NaN
    ELSE IF b.v = 0
         THEN IF a.v = 0 THEN NaN
              ELSE IF a.v > 0 THEN PosInfinity ELSE NegInfinity
         ELSE Num(FloorDiv(a.v, b.v) + 1)

----------------------------------------------------------------------------
(* Text: toLowerCase, includes, toString, parseInt, parseFloat *)

UpperChars == <<"A","B","C","D","E","F","G","H","I","J","K","L","M",
                "N","O","P","Q","R","S","T","U","V","W","X","Y","Z">>
LowerChars == <<"a","b","c","d","e","f","g","h","i","j","k","l","m",
                "n","o","p","q","r","s","t","u","v","w","x","y","z">>
DigitChars == <<"0","1","2","3","4","5","6","7","8","9">>

\* the lower-case letter of each upper-case letter
UpperToLower ==
    [c \in {UpperChars[i] : i \in 1..Len(UpperChars)} |->
        LowerChars[CHOOSE i \in 1..Len(UpperChars) : UpperChars[i] = c]]

ToLowerChar(c) == IF c \in DOMAIN UpperToLower THEN UpperToLower[c] ELSE c

\* String.prototype.toLowerCase
ToLowerCase(s) == [i \in 1..Len(s) |-> ToLowerChar(s[i])]

\* String.prototype.includes
Includes(s, sub) ==
    \E i \in 0..(Len(s) - Len(sub)) :
        \A j \in 1..Len(sub) : s[i + j] = sub[j]

IsDigit(c) == \E i \in 1..Len(DigitChars) : DigitChars[i] = c
DigitVal(c) == (CHOOSE i \in 1..Len(DigitChars) : DigitChars[i] = c) - 1

\* Number.prototype.toString for an integer n >= 0
RECURSIVE NumberToString(_)
NumberToString(n) ==
    IF n < 10 THEN <<DigitChars[n + 1]>>
    ELSE NumberToString(n \div 10) \o <<DigitChars[(n % 10) + 1]>>

\* the number of consecutive digits of s from position i on
RECURSIVE DigitRun(_, _)
DigitRun(s, i) ==
    IF i <= Len(s) /\ IsDigit(s[i]) THEN 1 + DigitRun(s, i + 1) ELSE 0

\* the value of the n digits of s that start at position i
RECURSIVE DigitsValue(_, _, _)
DigitsValue(s, i, n) ==
    IF n = 0 THEN 0
    ELSE 10 * DigitsValue(s, i, n - 1) + DigitVal(s[i + n - 1])

HasSign(s) == Len(s) > 0 /\ s[1] \in {"-", "+"}
SignOf(s) == IF Len(s) > 0 /\ s[1] = "-" THEN -1 ELSE 1

\* parseInt(s): an optional sign, then the longest run of decimal digits;
\* NaN when there is no digit
ParseInt(s) ==
    LET first == IF HasSign(s) THEN 2 ELSE 1
        n == DigitRun(s, first)
    IN  IF n = 0 THEN NaN ELSE Num(SignOf(s) * DigitsValue(s, first, n))

\* parseFloat(s), in hundredths: an optional sign, digits, an optional "."
\* and fraction digits (the first two count); NaN when there is no digit
ParseFloat(s) ==
    LET first == IF HasSign(s) THEN 2 ELSE 1
        n == DigitRun(s, first)
        dot == first + n
        hasDot == dot <= Len(s) /\ s[dot] = "."
        m == IF hasDot THEN DigitRun(s, dot + 1) ELSE 0
        whole == DigitsValue(s, first, n)
        tenths == IF m >= 1 THEN DigitVal(s[dot + 1]) ELSE 0
        hundredths == IF m >= 2 THEN DigitVal(s[dot + 2]) ELSE 0
    IN  IF n = 0 /\ m = 0 THEN NaN
        ELSE Num(SignOf(s) * (100 * whole + 10 * tenths + hundredths))

\* new Date(iso).getTime() of a calendar date, in days on a 31-day month grid
\* (order-preserving on dates, which is all the handlers use it for)
GetTime(d) == (d.year * 12 + (d.month - 1)) * 31 + (d.day - 1)

----------------------------------------------------------------------------
(* Array.prototype.slice *)

\* ToIntegerOrInfinity of a slice bound: NaN counts as 0
ToInteger(x) == IF IsNum(x) THEN x.v ELSE 0

RelativeIndex(r, len) == IF r < 0 THEN Max(len + r, 0) ELSE Min(r, len)

Slice(s, start, end) ==
    LET k == RelativeIndex(ToInteger(start), Len(s))
        final == RelativeIndex(ToInteger(end), Len(s))
    IN  SubSeq(s, k + 1, final)

----------------------------------------------------------------------------
(* The course store *)

\* mockCourses as seeded; the fields no modelled handler reads are left out.
SeedCourses == <<
    [id |-> "course_1",
     title |->
         <<"I","n","t","r","o","d","u","c","t","i","o","n"," ","t","o",
           " ","W","e","b"," ","D","e","v","e","l","o","p","m","e","n",
           "t">>,
     description |->
         <<"L","e","a","r","n"," ","t","h","e"," ","f","u","n","d","a",
           "m","e","n","t","a","l","s"," ","o","f"," ","w","e","b"," ",
           "d","e","v","e","l","o","p","m","e","n","t"," ","w","i","t",
           "h"," ","H","T","M","L",","," ","C","S","S",","," ","a","n",
           "d"," ","J","a","v","a","S","c","r","i","p","t">>,
     instructor |->
         <<"D","r","."," ","S","a","r","a","h"," ","J","o","h","n","s",
           "o","n">>,
     price |-> 9999, rating |-> 48, student_count |-> 1250,
     category |-> "Programming", level |-> "Beginner", featured |-> TRUE,
     created_at |-> [year |-> 2024, month |-> 1, day |-> 1],
     tags |-> <<<<"H","T","M","L">>,
              <<"C","S","S">>,
              <<"J","a","v","a","S","c","r","i","p","t">>,
              <<"W","e","b"," ","D","e","v","e","l","o","p","m","e","n","t">>>>],
    [id |-> "course_2",
     title |->
         <<"A","d","v","a","n","c","e","d"," ","R","e","a","c","t"," ",
           "D","e","v","e","l","o","p","m","e","n","t">>,
     description |->
         <<"M","a","s","t","e","r"," ","R","e","a","c","t"," ","w","i",
           "t","h"," ","h","o","o","k","s",","," ","c","o","n","t","e",
           "x","t",","," ","a","n","d"," ","a","d","v","a","n","c","e",
           "d"," ","p","a","t","t","e","r","n","s">>,
     instructor |->
         <<"P","r","o","f","."," ","M","i","c","h","a","e","l"," ","C",
           "h","e","n">>,
     price |-> 14999, rating |-> 49, student_count |-> 890,
     category |-> "Programming", level |-> "Advanced", featured |-> TRUE,
     created_at |-> [year |-> 2024, month |-> 2, day |-> 1],
     tags |-> <<<<"R","e","a","c","t">>,
              <<"J","a","v","a","S","c","r","i","p","t">>,
              <<"F","r","o","n","t","e","n","d">>,
              <<"H","o","o","k","s">>>>] >>

\* Further course records, for the stores the query is checked on: one that
\* ties with the seeded courses on every sort key, and one created in the
\* year before.
OtherCourses == {
    [id |-> "course_3",
     title |-> <<"A","r","t">>,
     description |-> <<"i","n","k">>,
     instructor |-> <<"A","n","d","r","e","a">>,
     price |-> 9999, rating |-> 49, student_count |-> 1250,
     category |-> "Design", level |-> "Beginner", featured |-> FALSE,
     created_at |-> [year |-> 2024, month |-> 2, day |-> 1],
     tags |-> << <<"I","n","k">> >>],
    [id |-> "course_4",
     title |-> <<"J","a","z","z">>,
     description |-> <<"s","o","l","o">>,
     instructor |-> <<"M","i","l","e","s">>,
     price |-> 5000, rating |-> 40, student_count |-> 2000,
     category |-> "Music", level |-> "Intermediate", featured |-> FALSE,
     created_at |-> [year |-> 2023, month |-> 12, day |-> 31],
     tags |-> << <<"J","a","z","z">> >>] }

Catalogue == {SeedCourses[i] : i \in 1..Len(SeedCourses)} \cup OtherCourses

RECURSIVE SeqsOfDistinct(_, _)
SeqsOfDistinct(S, n) ==
    IF n = 0 THEN {<<>>}
    ELSE {<<>>} \cup UNION {{<<x>> \o t : t \in SeqsOfDistinct(S \ {x}, n - 1)} : x \in S}

\* The course stores the query is checked on: every sequence of at most
\* MaxCourses distinct records of the catalogue.
CourseStores == SeqsOfDistinct(Catalogue, MaxCourses)

----------------------------------------------------------------------------
(* GET /courses *)

NoRequest == [op |-> "none"]
NoResponse == [status |-> 0]

\* the values a query parameter takes when it is supplied
SearchValues == {<<>>, <<"R","E">>, <<"a","r">>}
CategoryValues == {"", "Programming", "Jazz"}
LevelValues == {"", "Beginner"}
FeaturedValues == {"", "true", "false"}
PriceMinValues == {<<>>, <<"9","9",".","9","9">>, <<"x">>}
PriceMaxValues == {<<>>, <<"1","0","0">>}
SortByValues == {"", "price-low", "price-high", "rating", "newest", "popular", "title"}
LimitValues == {<<>>, <<"-","1">>, <<"0">>, <<"1">>, <<"2">>}
OffsetValues == {<<"-","1">>, <<"1">>, <<"2">>}

ParamNames == {"search", "category", "level", "featured", "priceMin",
               "priceMax", "sortBy", "limit", "offset"}

NumSupplied(q) == Cardinality({p \in ParamNames : Present(q[p])})

\* the values parameter p takes in a request that supplies exactly the
\* parameters in S
Supplied(S, p, values) == IF p \in S THEN {Some(v) : v \in values} ELSE {None}

\* req.query of GET /courses
CourseQueries ==
    UNION {[search : Supplied(S, "search", SearchValues),
            category : Supplied(S, "category", CategoryValues),
            level : Supplied(S, "level", LevelValues),
            featured : Supplied(S, "featured", FeaturedValues),
            priceMin : Supplied(S, "priceMin", PriceMinValues),
            priceMax : Supplied(S, "priceMax", PriceMaxValues),
            sortBy : Supplied(S, "sortBy", SortByValues),
            limit : Supplied(S, "limit", LimitValues),
            offset : Supplied(S, "offset", OffsetValues)] :
           S \in {T \in SUBSET ParamNames : Cardinality(T) <= MaxSupplied}}

\* JS truthiness of a query parameter: present and not the empty string
Truthy(o) == Present(o) /\ Val(o) # ""
TruthyText(o) == Present(o) /\ Len(Val(o)) > 0

DefaultLimit == 20
DefaultOffset == 0

\* Mutant: the course texts are not lower-cased
MatchesSearchCaseSensitive(course, searchLower) ==
    \/ Includes(course.title, searchLower)
    \/ Includes(course.instructor, searchLower)
    \/ Includes(course.description, searchLower)

MatchesSearch(course, searchLower) ==
    \/ Includes(ToLowerCase(course.title), searchLower)
    \/ Includes(ToLowerCase(course.instructor), searchLower)
    \/ Includes(ToLowerCase(course.description), searchLower)

\* the filters of GET /courses, applied one after the other
FilterCourses(store, q) ==
    LET f0 == store
        f1 == IF TruthyText(q.search)
              THEN SelectSeq(f0, LAMBDA c :
                       MatchesSearch(c, ToLowerCase(Val(q.search))))
              ELSE f0
        f2 == IF Truthy(q.category)
              THEN SelectSeq(f1, LAMBDA c : c.category = Val(q.category))
              ELSE f1
        f3 == IF Truthy(q.level)
              THEN SelectSeq(f2, LAMBDA c : c.level = Val(q.level))
              ELSE f2
        f4 == IF Present(q.featured)
              THEN SelectSeq(f3, LAMBDA c :
                       c.featured = (Val(q.featured) = "true"))
              ELSE f3
        f5 == IF TruthyText(q.priceMin)
              THEN SelectSeq(f4, LAMBDA c :
                       JsGe(Num(c.price), ParseFloat(Val(q.priceMin))))
              ELSE f4
        f6 == IF TruthyText(q.priceMax)
              THEN SelectSeq(f5, LAMBDA c :
                       JsLe(Num(c.price), ParseFloat(Val(q.priceMax))))
              ELSE f5
    IN  f6

\* the comparator the switch on sortBy selects: a negative, zero or positive
\* number as a sorts before, with, or after b
\* Mutant: the switch has no default branch
CompareWithoutDefault(sortBy, a, b) ==
    CASE sortBy = "price-low" -> a.price - b.price
      [] sortBy = "price-high" -> b.price - a.price
      [] sortBy = "rating" -> b.rating - a.rating
      [] sortBy = "newest" -> GetTime(b.created_at) - GetTime(a.created_at)
      [] sortBy = "popular" -> b.student_count - a.student_count
      [] OTHER -> 0

\* the comparator the switch on sortBy selects (popular is the default)
Compare(sortBy, a, b) ==
    CASE sortBy = "price-low" -> a.price - b.price
      [] sortBy = "price-high" -> b.price - a.price
      [] sortBy = "rating" -> b.rating - a.rating
      [] sortBy = "newest" -> GetTime(b.created_at) - GetTime(a.created_at)
      [] OTHER -> b.student_count - a.student_count

\* Mutant: x goes in front of the elements it ties with
RECURSIVE InsertSortedUnstable(_, _, _)
InsertSortedUnstable(s, x, sortBy) ==
    IF s = <<>> THEN <<x>>
    ELSE IF Compare(sortBy, s[Len(s)], x) >= 0
         THEN Append(InsertSortedUnstable(SubSeq(s, 1, Len(s) - 1), x, sortBy),
                     s[Len(s)])
         ELSE Append(s, x)

\* x put into the sorted sequence s behind every element that does not sort
\* after it
RECURSIVE InsertSorted(_, _, _)
InsertSorted(s, x, sortBy) ==
    IF s = <<>> THEN <<x>>
    ELSE IF Compare(sortBy, s[Len(s)], x) > 0
         THEN Append(InsertSorted(SubSeq(s, 1, Len(s) - 1), x, sortBy), s[Len(s)])
         ELSE Append(s, x)

\* Array.prototype.sort with that comparator: a stable sort (ES2019)
RECURSIVE SortCourses(_, _)
SortCourses(s, sortBy) ==
    IF s = <<>> THEN <<>>
    ELSE InsertSorted(SortCourses(SubSeq(s, 1, Len(s) - 1), sortBy), s[Len(s)], sortBy)

\* Mutant: without sortBy the popularity sort is applied
ApplySortingByDefault(filtered, q) ==
    SortCourses(filtered, IF Truthy(q.sortBy) THEN Val(q.sortBy) ELSE "popular")

\* "Apply sorting": only when sortBy is truthy
ApplySorting(filtered, q) ==
    IF Truthy(q.sortBy) THEN SortCourses(filtered, Val(q.sortBy)) ELSE filtered

\* parseInt(offset.toString()), parseInt(limit.toString()) with the defaults
\* of the destructuring
StartIndex(q) ==
    ParseInt(IF Present(q.offset) THEN Val(q.offset) ELSE NumberToString(DefaultOffset))
LimitNum(q) ==
    ParseInt(IF Present(q.limit) THEN Val(q.limit) ELSE NumberToString(DefaultLimit))

\* Mutant: the end of the slice is the limit, not offset + limit
PaginateToLimit(sorted, q) == Slice(sorted, StartIndex(q), LimitNum(q))

Paginate(sorted, q) ==
    Slice(sorted, StartIndex(q), JsAdd(StartIndex(q), LimitNum(q)))

\* Mutant: total counts the page, not the filtered courses
CoursesResponseTotalOfPage(store, q) ==
    LET sorted == ApplySorting(FilterCourses(store, q), q)
    IN  [status |-> 200,
         courses |-> Paginate(sorted, q),
         total |-> Len(Paginate(sorted, q)),
         page |-> JsPage(StartIndex(q), LimitNum(q)),
         limit |-> LimitNum(q)]

\* the response of GET /courses to query q on the course store
CoursesResponse(store, q) ==
    LET sorted == ApplySorting(FilterCourses(store, q), q)
    IN  [status |-> 200,
         courses |-> Paginate(sorted, q),
         total |-> Len(sorted),
         page |-> JsPage(StartIndex(q), LimitNum(q)),
         limit |-> LimitNum(q)]

\* GET /courses: the handler answers the request that is pending
GetCourses ==
    /\ request.op = "GET /courses"
    /\ response = NoResponse
    /\ filteredCourses' = ApplySorting(FilterCourses(mockCourses, request.query),
                                       request.query)
    /\ response' = CoursesResponse(mockCourses, request.query)
    /\ UNCHANGED <<mockEnrollments, mockCourses, clock, request, before, userVars>>

----------------------------------------------------------------------------
(* The enrollment store *)

\* mockEnrollments as seeded. The id "enrollment_<n>" is the number n; a
\* created_at is a clock reading in ms (the seeded dates, 2024-01-15 and
\* 2024-01-20, lie before the process started); a tutor_id of null is None.
SeedEnrollments == <<
    [id |-> 1, created_at |-> 1, student_id |-> "user_123",
     course_id |-> "course_1", tutor_id |-> Some("tutor_1")],
    [id |-> 2, created_at |-> 2, student_id |-> "user_456",
     course_id |-> "course_2", tutor_id |-> Some("tutor_2")] >>

\* the clock readings: Date.now() at process start and up to MaxTicks ms later
ClockReadings == ProcessStart..(ProcessStart + MaxTicks)

\* the values the requests carry
StudentIdValues == {"", "user_123", "user_789"}
CourseIdValues == {"course_1", "course_9"}
UnenrollCourseIdValues == {"", "course_1", "course_2"}
TutorIdValues == {"", "tutor_1"}
PathStudentIds == {"user_123", "user_456", "user_789"}
EnrollmentIds == {SeedEnrollments[i].id : i \in 1..Len(SeedEnrollments)} \cup ClockReadings

OptionOf(S) == {None} \cup {Some(v) : v \in S}

\* req.body of POST /enrollments: every combination of student_id and
\* course_id without a tutor_id, and one pair with a tutor_id as well
EnrollmentBodies ==
    [student_id : OptionOf(StudentIdValues), course_id : OptionOf(CourseIdValues),
     tutor_id : {None}]
    \cup [student_id : {Some("user_789")}, course_id : {Some("course_9")},
          tutor_id : {Some(v) : v \in TutorIdValues}]

\* Array.prototype.findIndex, 1-based; 0 for the -1 of "not found"
FindIndex(seq, P(_)) ==
    IF \E i \in 1..Len(seq) : P(seq[i])
    THEN CHOOSE i \in 1..Len(seq) : P(seq[i]) /\ \A j \in 1..(i - 1) : ~P(seq[j])
    ELSE 0

\* Mutant: splice(index) without the count, which removes the rest as well
SpliceToEnd(seq, index) == SubSeq(seq, 1, index - 1)

\* seq.splice(index, 1) for a 1-based index of seq
Splice1(seq, index) == SubSeq(seq, 1, index - 1) \o SubSeq(seq, index + 1, Len(seq))

\* Mutant: unshift instead of push
PushFront(seq, record) == <<record>> \o seq

\* Mutant: the record is written over the last one instead of behind it
PushOverLast(seq, record) ==
    IF seq = <<>> THEN <<record>> ELSE [seq EXCEPT ![Len(seq)] = record]

\* seq.push(record)
Push(seq, record) == Append(seq, record)

\* Mutant: the result of findIndex is never tested
NeverNotFound(index) == FALSE

\* the test "index === -1" on a result of FindIndex
NotFound(index) == index = 0

SamePair(e, student_id, course_id) ==
    e.student_id = student_id /\ e.course_id = course_id

\* Mutant: no check for an existing enrollment
NeverExisting(store, student_id, course_id) == 0

\* Mutant: the search for an existing enrollment skips the first record
ExistingAfterFirst(store, student_id, course_id) ==
    FindIndex(store, LAMBDA e : SamePair(e, student_id, course_id) /\ e # store[1])

\* Mutant: a student is enrolled at most once, whatever the course
ExistingStudent(store, student_id, course_id) ==
    FindIndex(store, LAMBDA e : e.student_id = student_id)

\* the index of the first enrollment of the pair; 0 when there is none
ExistingEnrollment(store, student_id, course_id) ==
    FindIndex(store, LAMBDA e : SamePair(e, student_id, course_id))

\* POST /enrollments with req.body
PostEnrollmentOf(body) ==
    /\ request' = [op |-> "POST /enrollments", body |-> body]
    /\ before' = mockEnrollments
    /\ IF ~Truthy(body.student_id) \/ ~Truthy(body.course_id)
       THEN /\ response' = [status |-> 400]
            /\ UNCHANGED <<mockEnrollments, clock>>
       ELSE IF ~NotFound(ExistingEnrollment(mockEnrollments, Val(body.student_id),
                                            Val(body.course_id)))
       THEN /\ response' = [status |-> 409]
            /\ UNCHANGED <<mockEnrollments, clock>>
       ELSE \E now \in ClockReadings :
                /\ now >= clock
                /\ Len(mockEnrollments) < MaxEnrollments
                /\ LET newEnrollment ==
                           [id |-> now,
                            created_at |-> now,
                            student_id |-> Val(body.student_id),
                            course_id |-> Val(body.course_id),
                            tutor_id |-> IF Truthy(body.tutor_id)
                                         THEN body.tutor_id ELSE None]
                   IN  /\ mockEnrollments' = Push(mockEnrollments, newEnrollment)
                       /\ response' = [status |-> 201, enrollment |-> newEnrollment]
                /\ clock' = now
    /\ filteredCourses' = <<>>
    /\ UNCHANGED <<mockCourses, userVars>>

PostEnrollment == \E body \in EnrollmentBodies : PostEnrollmentOf(body)

\* DELETE /enrollments/:enrollmentId with req.params.enrollmentId
DeleteEnrollmentOf(enrollmentId) ==
    LET enrollmentIndex ==
            FindIndex(mockEnrollments, LAMBDA e : e.id = enrollmentId)
    IN  /\ request' = [op |-> "DELETE /enrollments/:enrollmentId",
                       enrollmentId |-> enrollmentId]
        /\ before' = mockEnrollments
        /\ IF NotFound(enrollmentIndex)
           THEN /\ response' = [status |-> 404]
                /\ UNCHANGED mockEnrollments
           ELSE /\ mockEnrollments' = Splice1(mockEnrollments, enrollmentIndex)
                /\ response' = [status |-> 200, enrollment_id |-> enrollmentId]
        /\ filteredCourses' = <<>>
        /\ UNCHANGED <<mockCourses, clock, userVars>>

DeleteEnrollment ==
    \E enrollmentId \in EnrollmentIds : DeleteEnrollmentOf(enrollmentId)

\* POST /enrollments/student/:studentId/unenroll with req.params.studentId
\* and req.body
UnenrollOf(studentId, body) ==
    LET enrollmentIndex ==
            IF Truthy(body.course_id)
            THEN ExistingEnrollment(mockEnrollments, studentId, Val(body.course_id))
            ELSE 0
    IN  /\ request' = [op |-> "POST /enrollments/student/:studentId/unenroll",
                       studentId |-> studentId, body |-> body]
        /\ before' = mockEnrollments
        /\ IF ~Truthy(body.course_id)
           THEN /\ response' = [status |-> 400]
                /\ UNCHANGED mockEnrollments
           ELSE IF NotFound(enrollmentIndex)
           THEN /\ response' = [status |-> 404]
                /\ UNCHANGED mockEnrollments
           ELSE /\ mockEnrollments' = Splice1(mockEnrollments, enrollmentIndex)
                /\ response' = [status |-> 200, student_id |-> studentId,
                                course_id |-> Val(body.course_id)]
        /\ filteredCourses' = <<>>
        /\ UNCHANGED <<mockCourses, clock, userVars>>

Unenroll ==
    \E studentId \in PathStudentIds, body \in [course_id : OptionOf(UnenrollCourseIdValues)] :
        UnenrollOf(studentId, body)

----------------------------------------------------------------------------
(* The user and student stores *)

\* A JSON value of a request body or of a stored field: its type and, as v,
\* the text String(value) gives for it.
JsString(text) == [type |-> "string", v |-> text]
JsNull == [type |-> "null", v |-> "null"]
JsFalse == [type |-> "boolean", v |-> "false"]
JsTrue == [type |-> "boolean", v |-> "true"]
JsZero == [type |-> "number", v |-> "0"]

\* the values JS takes for false in a condition
FalsyValues == {JsString(""), JsNull, JsFalse, JsZero}

\* JS truthiness of a body field: present (not undefined) and not falsy
TruthyValue(o) == Present(o) /\ Val(o) \notin FalsyValues

\* value || fallback
OrElse(o, fallback) == IF TruthyValue(o) THEN Val(o) ELSE fallback

\* `${value}` in a template literal
TextOf(o) == IF Present(o) THEN Val(o).v ELSE "undefined"

\* mockUsers as seeded; a created_at is a clock reading in ms (the seeded
\* dates, 2024-01-01 and 2024-01-15, lie before the process started)
SeedUsers == <<
    [id |-> "user_123", email |-> "john.doe@example.com", created_at |-> 1],
    [id |-> "user_456", email |-> "jane.smith@example.com", created_at |-> 2] >>

\* mockStudents as seeded; updated_at is None while the record has no such
\* property
SeedStudents == <<
    [id |-> "user_123",
     First_name |-> JsString("John"), Last_name |-> JsString("Doe"),
     email |-> JsString("john.doe@example.com"),
     display_name |-> JsString("John Doe"),
     academic_level |-> JsString("University"),
     profile_picture |-> JsNull,
     created_at |-> 1, updated_at |-> None],
    [id |-> "user_456",
     First_name |-> JsString("Jane"), Last_name |-> JsString("Smith"),
     email |-> JsString("jane.smith@example.com"),
     display_name |-> JsString("Jane Smith"),
     academic_level |-> JsString("Graduate"),
     profile_picture |-> JsString("/avatars/jane.jpg"),
     created_at |-> 2, updated_at |-> None] >>

PutProfileOp == "PUT /users/profile/:userId"
CreateProfileOp == "POST /users/create-profile"

\* Mutant: every field is merged whenever it is present
MergeProfileWhenPresent(student, body, now) ==
    [student EXCEPT
        !.First_name = IF Present(body.First_name) THEN Val(body.First_name) ELSE @,
        !.Last_name = IF Present(body.Last_name) THEN Val(body.Last_name) ELSE @,
        !.display_name = IF Present(body.display_name) THEN Val(body.display_name) ELSE @,
        !.academic_level = IF Present(body.academic_level)
                           THEN Val(body.academic_level) ELSE @,
        !.profile_picture = IF Present(body.profile_picture)
                            THEN Val(body.profile_picture) ELSE @,
        !.updated_at = Some(now)]

\* Mutant: the update rebuilds the record from the body and resets the
\* profile picture when the body has none
MergeProfileResetPicture(student, body, now) ==
    [student EXCEPT
        !.First_name = OrElse(body.First_name, @),
        !.Last_name = OrElse(body.Last_name, @),
        !.display_name = OrElse(body.display_name, @),
        !.academic_level = OrElse(body.academic_level, @),
        !.profile_picture = IF Present(body.profile_picture)
                            THEN Val(body.profile_picture) ELSE JsNull,
        !.updated_at = Some(now)]

\* updatedStudent of PUT /users/profile/:userId: the stored record, the
\* truthy fields of the body, profile_picture when it is not undefined, and
\* updated_at
MergeProfile(student, body, now) ==
    [student EXCEPT
        !.First_name = OrElse(body.First_name, @),
        !.Last_name = OrElse(body.Last_name, @),
        !.display_name = OrElse(body.display_name, @),
        !.academic_level = OrElse(body.academic_level, @),
        !.profile_picture = IF Present(body.profile_picture)
                            THEN Val(body.profile_picture) ELSE @,
        !.updated_at = Some(now)]

\* Mutant: the index of the record is not looked up, the first one is taken
FirstStudent(store, userId) == IF Len(store) > 0 THEN 1 ELSE 0

\* Mutant: no record is ever found
StudentNeverFound(store, userId) == 0

\* mockStudents.findIndex(s => s.id === userId); 0 when there is none
StudentIndex(store, userId) == FindIndex(store, LAMBDA st : st.id = userId)

\* PUT /users/profile/:userId with req.params.userId and req.body
PutProfile(userId, body) ==
    LET studentIndex == StudentIndex(mockStudents, userId)
    IN  /\ request' = [op |-> PutProfileOp, userId |-> userId, body |-> body]
        /\ before' = mockEnrollments
        /\ IF NotFound(studentIndex)
           THEN /\ response' = [status |-> 404]
                /\ UNCHANGED <<mockStudents, clock>>
           ELSE \E now \in ClockReadings :
                    /\ now >= clock
                    /\ LET updatedStudent ==
                               MergeProfile(mockStudents[studentIndex], body, now)
                       IN  /\ mockStudents' =
                                  [mockStudents EXCEPT ![studentIndex] = updatedStudent]
                           /\ response' = [status |-> 200, student |-> updatedStudent]
                    /\ clock' = now
        /\ filteredCourses' = <<>>
        /\ UNCHANGED <<mockEnrollments, mockCourses, mockUsers, nodeEnv>>

\* the status POST /users/create-profile answers a duplicate profile with
DuplicateProfileStatus == 400

\* POST /users/create-profile with req.body
CreateProfile(body) ==
    /\ request' = [op |-> CreateProfileOp, body |-> body]
    /\ before' = mockEnrollments
    /\ IF \/ ~Truthy(body.id) \/ ~TruthyValue(body.firstName)
          \/ ~TruthyValue(body.lastName) \/ ~TruthyValue(body.email)
       THEN /\ response' = [status |-> 400, error |-> "required"]
            /\ UNCHANGED <<mockStudents, clock>>
       ELSE IF ~NotFound(StudentIndex(mockStudents, Val(body.id)))
       THEN /\ response' = [status |-> DuplicateProfileStatus, error |-> "exists"]
            /\ UNCHANGED <<mockStudents, clock>>
       ELSE \E now \in ClockReadings :
                /\ now >= clock
                /\ Len(mockStudents) < Len(SeedStudents) + MaxProfiles
                /\ LET newStudent ==
                           [id |-> Val(body.id),
                            First_name |-> Val(body.firstName),
                            Last_name |-> Val(body.lastName),
                            email |-> Val(body.email),
                            display_name |->
                                OrElse(body.displayName,
                                       JsString(TextOf(body.firstName) \o " "
                                                    \o TextOf(body.lastName))),
                            academic_level |-> OrElse(body.academicLevel, JsNull),
                            profile_picture |-> OrElse(body.profilePicture, JsNull),
                            created_at |-> now, updated_at |-> None]
                   IN  /\ mockStudents' = Push(mockStudents, newStudent)
                       /\ response' = [status |-> 201, student |-> newStudent]
                /\ clock' = now
    /\ filteredCourses' = <<>>
    /\ UNCHANGED <<mockEnrollments, mockCourses, mockUsers, nodeEnv>>

\* the values a field of a PUT body takes when it is supplied
FieldValues == FalsyValues \cup {JsString("Ann"), JsTrue}
PictureValues == {JsNull, JsString(""), JsString("/avatars/ann.jpg")}
FieldNames == {"First_name", "Last_name", "display_name", "academic_level",
               "profile_picture"}

\* req.body of PUT /users/profile/:userId
ProfileBodies ==
    UNION {[First_name : Supplied(S, "First_name", FieldValues),
            Last_name : Supplied(S, "Last_name", FieldValues),
            display_name : Supplied(S, "display_name", FieldValues),
            academic_level : Supplied(S, "academic_level", FieldValues),
            profile_picture : Supplied(S, "profile_picture", PictureValues)] :
           S \in {T \in SUBSET FieldNames : Cardinality(T) <= MaxFields}}

\* the body that supplies display_name only
OnlyDisplayName(value) ==
    [First_name |-> None, Last_name |-> None, display_name |-> Some(value),
     academic_level |-> None, profile_picture |-> None]

\* req.params.userId of the requests to /users
UserIdValues == {"user_123", "user_456", "user_789"}

\* req.body of POST /users/create-profile
ProfileIdValues == {"", "user_123", "user_789"}
CreateBodies ==
    [id : OptionOf(ProfileIdValues),
     firstName : OptionOf({JsString(""), JsString("Ada")}),
     lastName : OptionOf({JsString("Byron")}),
     email : OptionOf({JsString("ada@example.com")}),
     displayName : OptionOf({JsString(""), JsString("Countess")}),
     academicLevel : OptionOf({JsString("Graduate")}),
     profilePicture : {None}]

\* the body with the required fields only, for a profile of id
RequiredOnly(id) ==
    [id |-> Some(id), firstName |-> Some(JsString("Ada")),
     lastName |-> Some(JsString("Byron")), email |-> Some(JsString("ada@example.com")),
     displayName |-> None, academicLevel |-> None, profilePicture |-> None]

\* PUT /users/profile/:userId, POST /users/create-profile: a request arrives
\* and is answered
AppPutProfile ==
    \E userId \in {"user_123", "user_000"},
       body \in {OnlyDisplayName(JsString("Johnny"))} :
        PutProfile(userId, body)

AppCreateProfile ==
    \E body \in {RequiredOnly("user_123"), RequiredOnly("user_789"),
                 [RequiredOnly("user_789") EXCEPT !.email = None]} :
        CreateProfile(body)

\* the same handlers answering the request that is pending
PutProfilePending ==
    /\ request.op = PutProfileOp
    /\ response = NoResponse
    /\ PutProfile(request.userId, request.body)

CreateProfilePending ==
    /\ request.op = CreateProfileOp
    /\ response = NoResponse
    /\ CreateProfile(request.body)

----------------------------------------------------------------------------
(* GET /users/profile/:userId *)

GetProfileOp == "GET /users/profile/:userId"

\* Mutant: every id is answered with the first user
UserAlwaysFound(store, userId) == 1

\* mockUsers.find(u => u.id === userId): the index of the user, 0 for none
UserIndex(store, userId) == FindIndex(store, LAMBDA u : u.id = userId)

\* the response of GET /users/profile/:userId; student is null when the
\* student store has no record of the id
ProfileResponse(users, students, userId) ==
    LET user == UserIndex(users, userId)
        student == FindIndex(students, LAMBDA r : r.id = userId)
    IN  IF NotFound(user)
        THEN [status |-> 404, error |-> "User not found"]
        ELSE [status |-> 200, user |-> users[user],
              student |-> IF NotFound(student) THEN None ELSE Some(students[student])]

\* GET /users/profile/:userId with req.params.userId
GetProfile(userId) ==
    /\ request' = [op |-> GetProfileOp, userId |-> userId]
    /\ before' = mockEnrollments
    /\ response' = ProfileResponse(mockUsers, mockStudents, userId)
    /\ filteredCourses' = <<>>
    /\ UNCHANGED <<mockEnrollments, mockCourses, clock, userVars>>

----------------------------------------------------------------------------
(* The error handling middleware (index.ts) *)

ThrowsOp == "handler throws"

\* the values of NODE_ENV
NodeEnvValues == {None, Some("development"), Some("test"), Some("production")}

\* err.message of the errors a handler throws
ErrorMessages == {"", "x.slice is not a function", "Something went wrong"}

\* Mutant: the message is withheld in production only
ErrorMessageUnlessProduction(env, message) ==
    IF env # Some("production") THEN message ELSE "Something went wrong"

\* the message of the response: err.message in development only
ErrorMessage(env, message) ==
    IF env = Some("development") THEN message ELSE "Something went wrong"

\* app.use((err, req, res, next) => ...): the handler of the pending request
\* has thrown err
ErrorMiddleware ==
    /\ request.op = ThrowsOp
    /\ response = NoResponse
    /\ response' = [status |-> 500, error |-> "Internal Server Error",
                    message |-> ErrorMessage(nodeEnv, request.err)]
    /\ UNCHANGED <<mockEnrollments, mockCourses, clock, request, before,
                   filteredCourses, userVars>>

----------------------------------------------------------------------------
(* The GET routes of the enrollment router, in registration order *)

\* A segment of a request path: a word, or the enrollment id "enrollment_<n>"
Literal(text) == [text |-> text, n |-> 0]
IdSegment(n) == [text |-> "enrollment_", n |-> n]

\* An element of a route pattern: a word, or a parameter (:name)
Lit(text) == [param |-> FALSE, text |-> text]
Par(name) == [param |-> TRUE, text |-> name]

\* Mutant: /stats is registered before /:enrollmentId
EnrollmentGetRoutesStatsFirst == <<
    [handler |-> "student", pattern |-> <<Lit("student"), Par("studentId")>>],
    [handler |-> "course", pattern |-> <<Lit("course"), Par("courseId")>>],
    [handler |-> "check", pattern |-> <<Lit("check")>>],
    [handler |-> "stats", pattern |-> <<Lit("stats")>>],
    [handler |-> "details", pattern |-> <<Par("enrollmentId")>>],
    [handler |-> "count", pattern |-> <<Lit("course"), Par("courseId"), Lit("count")>>] >>

\* router.get(...) of routes/enrollment.ts, as registered
EnrollmentGetRoutes == <<
    [handler |-> "student", pattern |-> <<Lit("student"), Par("studentId")>>],
    [handler |-> "course", pattern |-> <<Lit("course"), Par("courseId")>>],
    [handler |-> "check", pattern |-> <<Lit("check")>>],
    [handler |-> "details", pattern |-> <<Par("enrollmentId")>>],
    [handler |-> "count", pattern |-> <<Lit("course"), Par("courseId"), Lit("count")>>],
    [handler |-> "stats", pattern |-> <<Lit("stats")>>] >>

\* the pattern matches the path: a parameter matches any segment
MatchesPattern(pattern, path) ==
    /\ Len(pattern) = Len(path)
    /\ \A i \in 1..Len(path) : pattern[i].param \/ path[i] = Literal(pattern[i].text)

\* the first route that matches the path takes the request; "none" when no
\* route matches and the request falls through to the 404 handler of the app
HandlerOf(routes, path) ==
    LET index == FindIndex(routes, LAMBDA r : MatchesPattern(r.pattern, path))
    IN  IF index = 0 THEN "none" ELSE routes[index].handler

\* student_id.slice(-3) for the student ids of the model
LastThree(id) ==
    CASE id = "user_123" -> "123"
      [] id = "user_456" -> "456"
      [] id = "user_789" -> "789"

\* the mock course details of GET /student/:studentId and GET /:enrollmentId
MockCourseTitle(course_id) ==
    IF course_id = "course_1" THEN "Introduction to Web Development"
    ELSE "Advanced React Development"
MockCourseInstructor(course_id) ==
    IF course_id = "course_1" THEN "Dr. Sarah Johnson" ELSE "Prof. Michael Chen"

\* GET /enrollments/student/:studentId
StudentEnrollmentsResponse(store, studentId, query) ==
    LET studentEnrollments == SelectSeq(store, LAMBDA e : e.student_id = studentId)
        withCourse(e) ==
            [id |-> e.id, created_at |-> e.created_at, student_id |-> e.student_id,
             course_id |-> e.course_id, tutor_id |-> e.tutor_id,
             course |-> [id |-> e.course_id,
                         title |-> MockCourseTitle(e.course_id),
                         thumbnail |-> "/placeholder.jpg",
                         instructor |-> MockCourseInstructor(e.course_id),
                         category |-> "Programming",
                         level |-> IF e.course_id = "course_1"
                                   THEN "Beginner" ELSE "Advanced"]]
    IN  [status |-> 200,
         enrollments |-> IF query.include_courses = Some("true")
                         THEN [i \in 1..Len(studentEnrollments) |->
                                   withCourse(studentEnrollments[i])]
                         ELSE studentEnrollments,
         student_id |-> studentId,
         total |-> Len(studentEnrollments)]

\* GET /enrollments/course/:courseId
CourseEnrollmentsResponse(store, courseId, query) ==
    LET courseEnrollments == SelectSeq(store, LAMBDA e : e.course_id = courseId)
        withStudent(e) ==
            [id |-> e.id, created_at |-> e.created_at, student_id |-> e.student_id,
             course_id |-> e.course_id, tutor_id |-> e.tutor_id,
             student |-> [id |-> e.student_id, First_name |-> "John",
                          Last_name |-> "Doe",
                          email |-> "student" \o LastThree(e.student_id)
                                      \o "@example.com",
                          display_name |-> "John Doe"]]
    IN  [status |-> 200,
         enrollments |-> IF query.include_students = Some("true")
                         THEN [i \in 1..Len(courseEnrollments) |->
                                   withStudent(courseEnrollments[i])]
                         ELSE courseEnrollments,
         course_id |-> courseId,
         total |-> Len(courseEnrollments)]

\* GET /enrollments/check
CheckResponse(store, query) ==
    IF ~Truthy(query.student_id) \/ ~Truthy(query.course_id)
    THEN [status |-> 400]
    ELSE LET index == ExistingEnrollment(store, Val(query.student_id),
                                         Val(query.course_id))
         IN  [status |-> 200,
              is_enrolled |-> ~NotFound(index),
              enrollment |-> IF NotFound(index) THEN None ELSE Some(store[index]),
              student_id |-> Val(query.student_id),
              course_id |-> Val(query.course_id)]

\* GET /enrollments/:enrollmentId
EnrollmentDetailsResponse(store, enrollmentId) ==
    LET index == FindIndex(store, LAMBDA e : IdSegment(e.id) = enrollmentId)
    IN  IF index = 0
        THEN [status |-> 404, error |-> "Enrollment not found"]
        ELSE LET enrollment == store[index]
             IN  [status |-> 200,
                  enrollment |-> enrollment,
                  student |-> [id |-> enrollment.student_id, First_name |-> "John",
                               Last_name |-> "Doe",
                               email |-> "student" \o LastThree(enrollment.student_id)
                                           \o "@example.com"],
                  course |-> [id |-> enrollment.course_id,
                              title |-> MockCourseTitle(enrollment.course_id),
                              instructor |-> MockCourseInstructor(enrollment.course_id)]]

\* GET /enrollments/course/:courseId/count
CountResponse(store, courseId) ==
    [status |-> 200, course_id |-> courseId,
     enrollment_count |-> Len(SelectSeq(store, LAMBDA e : e.course_id = courseId))]

\* e put into the sequence s, sorted by descending created_at, behind every
\* record that is not older
RECURSIVE InsertByRecency(_, _)
InsertByRecency(s, e) ==
    IF s = <<>> THEN <<e>>
    ELSE IF e.created_at - s[Len(s)].created_at > 0
         THEN Append(InsertByRecency(SubSeq(s, 1, Len(s) - 1), e), s[Len(s)])
         ELSE Append(s, e)

\* mockEnrollments.sort((a, b) => b.created_at - a.created_at): the store
\* itself is sorted (stable), latest first
RECURSIVE SortByRecency(_)
SortByRecency(s) ==
    IF s = <<>> THEN <<>>
    ELSE InsertByRecency(SortByRecency(SubSeq(s, 1, Len(s) - 1)), s[Len(s)])

\* GET /enrollments/stats
StatsResponse(store) ==
    [status |-> 200,
     total_enrollments |-> Len(store),
     unique_students |-> Cardinality({store[i].student_id : i \in 1..Len(store)}),
     unique_courses |-> Cardinality({store[i].course_id : i \in 1..Len(store)}),
     recent_enrollments |-> SubSeq(SortByRecency(store), 1, Min(10, Len(store)))]

GetEnrollmentsOp == "GET /enrollments/..."

\* the query no parameter is supplied in
NoEnrollmentQuery ==
    [include_courses |-> None, include_students |-> None,
     student_id |-> None, course_id |-> None]

\* a GET request to the enrollment router with req.path and req.query: the
\* first matching route answers it
GetEnrollments(path, query) ==
    LET handler == HandlerOf(EnrollmentGetRoutes, path)
    IN  /\ request' = [op |-> GetEnrollmentsOp, path |-> path, query |-> query,
                       handler |-> handler]
        /\ before' = mockEnrollments
        /\ response' =
               CASE handler = "student" ->
                        StudentEnrollmentsResponse(mockEnrollments, path[2].text, query)
                 [] handler = "course" ->
                        CourseEnrollmentsResponse(mockEnrollments, path[2].text, query)
                 [] handler = "check" -> CheckResponse(mockEnrollments, query)
                 [] handler = "details" ->
                        EnrollmentDetailsResponse(mockEnrollments, path[1])
                 [] handler = "count" -> CountResponse(mockEnrollments, path[2].text)
                 [] handler = "stats" -> StatsResponse(mockEnrollments)
                 [] OTHER -> [status |-> 404, error |-> "Not Found"]
        /\ mockEnrollments' = IF handler = "stats"
                              THEN SortByRecency(mockEnrollments)
                              ELSE mockEnrollments
        /\ filteredCourses' = <<>>
        /\ UNCHANGED <<mockCourses, clock, userVars>>

----------------------------------------------------------------------------
(* GET /users/:userId/enrollments, GET /courses/search, POST /auth/signup *)

UserEnrollmentsOp == "GET /users/:userId/enrollments"
SearchCoursesOp == "GET /courses/search"
SignupOp == "POST /auth/signup"

\* the local mockEnrollments of GET /users/:userId/enrollments
MockUserEnrollments == <<
    [enrollment_id |-> 1, course_id |-> "course_1",
     enrolled_at |-> "2024-01-15T10:00:00Z",
     course |-> [id |-> "course_1", title |-> "Introduction to Web Development",
                 instructor |-> "Dr. Sarah Johnson", thumbnail |-> "/placeholder.jpg",
                 category |-> "Programming", level |-> "Beginner",
                 rating |-> 48, price |-> 9999]],
    [enrollment_id |-> 2, course_id |-> "course_2",
     enrolled_at |-> "2024-02-01T14:30:00Z",
     course |-> [id |-> "course_2", title |-> "Advanced React Development",
                 instructor |-> "Prof. Michael Chen", thumbnail |-> "/placeholder.jpg",
                 category |-> "Programming", level |-> "Advanced",
                 rating |-> 49, price |-> 14999]] >>

\* GET /users/:userId/enrollments with req.params.userId
GetUserEnrollments(userId) ==
    /\ request' = [op |-> UserEnrollmentsOp, userId |-> userId]
    /\ before' = mockEnrollments
    /\ response' = IF NotFound(FindIndex(mockUsers, LAMBDA u : u.id = userId))
                   THEN [status |-> 404, error |-> "User not found"]
                   ELSE [status |-> 200, enrollments |-> MockUserEnrollments,
                         total |-> Len(MockUserEnrollments)]
    /\ filteredCourses' = <<>>
    /\ UNCHANGED <<mockEnrollments, mockCourses, clock, userVars>>

\* Mutant: the search compares the texts as they are written
MatchesSearchOrTagCaseSensitive(course, searchLower) ==
    \/ Includes(course.title, searchLower)
    \/ Includes(course.instructor, searchLower)
    \/ Includes(course.description, searchLower)
    \/ \E i \in 1..Len(course.tags) : Includes(course.tags[i], searchLower)

\* the filter of GET /courses/search: title, instructor, description or a tag
MatchesSearchOrTag(course, searchLower) ==
    \/ Includes(ToLowerCase(course.title), searchLower)
    \/ Includes(ToLowerCase(course.instructor), searchLower)
    \/ Includes(ToLowerCase(course.description), searchLower)
    \/ \E i \in 1..Len(course.tags) :
           Includes(ToLowerCase(course.tags[i]), searchLower)

\* Mutant: without a q the search answers with every course
SearchResponseAllWithoutQuery(store, q) ==
    [status |-> 200,
     courses |-> Paginate(store, q),
     query |-> IF Present(q.q) THEN Val(q.q) ELSE <<>>,
     total |-> Len(store),
     page |-> JsPage(StartIndex(q), LimitNum(q))]

\* the response of GET /courses/search to query q on the course store
SearchResponse(store, q) ==
    IF ~TruthyText(q.q)
    THEN [status |-> 400, error |-> "Search query is required"]
    ELSE LET searchLower == ToLowerCase(Val(q.q))
             searchResults ==
                 SelectSeq(store, LAMBDA c : MatchesSearchOrTag(c, searchLower))
         IN  [status |-> 200,
              courses |-> Paginate(searchResults, q),
              query |-> Val(q.q),
              total |-> Len(searchResults),
              page |-> JsPage(StartIndex(q), LimitNum(q))]

\* GET /courses/search with req.query
SearchCourses(q) ==
    /\ request' = [op |-> SearchCoursesOp, query |-> q]
    /\ before' = mockEnrollments
    /\ response' = SearchResponse(mockCourses, q)
    /\ filteredCourses' = <<>>
    /\ UNCHANGED <<mockEnrollments, mockCourses, clock, userVars>>

CategoryCoursesOp == "GET /courses/category/:category"

\* Mutant: a category without courses is answered with an empty list
CategoryResponseWithoutCheck(store, category, q) ==
    LET inCategory == SelectSeq(store, LAMBDA c : c.category = category)
        coursesByCategory ==
            IF TruthyText(q.limit)
            THEN Slice(inCategory, Num(0), ParseInt(Val(q.limit)))
            ELSE inCategory
    IN  [status |-> 200, courses |-> coursesByCategory, category |-> category,
         total |-> Len(coursesByCategory)]

\* Mutant: total counts the courses of the category before the limit
CategoryResponseTotalBeforeLimit(store, category, q) ==
    LET inCategory == SelectSeq(store, LAMBDA c : c.category = category)
        coursesByCategory ==
            IF TruthyText(q.limit)
            THEN Slice(inCategory, Num(0), ParseInt(Val(q.limit)))
            ELSE inCategory
    IN  IF ~\E i \in 1..Len(store) : store[i].category = category
        THEN [status |-> 404, error |-> "Category not found"]
        ELSE [status |-> 200, courses |-> coursesByCategory, category |-> category,
              total |-> Len(inCategory)]

\* the response of GET /courses/category/:category to req.params.category and
\* req.query on the course store
CategoryResponse(store, category, q) ==
    LET categoryExists == \E i \in 1..Len(store) : store[i].category = category
        inCategory == SelectSeq(store, LAMBDA c : c.category = category)
        coursesByCategory ==
            IF TruthyText(q.limit)
            THEN Slice(inCategory, Num(0), ParseInt(Val(q.limit)))
            ELSE inCategory
    IN  IF ~categoryExists
        THEN [status |-> 404, error |-> "Category not found"]
        ELSE [status |-> 200, courses |-> coursesByCategory, category |-> category,
              total |-> Len(coursesByCategory)]

\* GET /courses/category/:category with req.params.category and req.query
GetCategoryCourses(category, q) ==
    /\ request' = [op |-> CategoryCoursesOp, category |-> category, query |-> q]
    /\ before' = mockEnrollments
    /\ response' = CategoryResponse(mockCourses, category, q)
    /\ filteredCourses' = <<>>
    /\ UNCHANGED <<mockEnrollments, mockCourses, clock, userVars>>

\* GET /courses with req.query, answered as the request arrives
GetCoursesOf(q) ==
    /\ request' = [op |-> "GET /courses", query |-> q]
    /\ before' = mockEnrollments
    /\ filteredCourses' = ApplySorting(FilterCourses(mockCourses, q), q)
    /\ response' = CoursesResponse(mockCourses, q)
    /\ UNCHANGED <<mockEnrollments, mockCourses, clock, userVars>>

\* POST /auth/signup with req.body: a mock user and student are answered,
\* none is stored
Signup(body) ==
    \E now \in ClockReadings :
        /\ now >= clock
        /\ request' = [op |-> SignupOp, body |-> body]
        /\ before' = mockEnrollments
        /\ response' =
               [status |-> 201,
                user |-> [id |-> now, email |-> body.email, created_at |-> now],
                student |-> [id |-> now,
                             First_name |-> body.firstName,
                             Last_name |-> body.lastName,
                             email |-> body.email,
                             display_name |->
                                 OrElse(body.displayName,
                                        JsString(TextOf(body.firstName) \o " "
                                                     \o TextOf(body.lastName))),
                             academic_level |-> OrElse(body.academicLevel, JsNull),
                             created_at |-> now]]
        /\ clock' = now
        /\ filteredCourses' = <<>>
        /\ UNCHANGED <<mockEnrollments, mockCourses, userVars>>

----------------------------------------------------------------------------
(* The other GET routes of the course router, in registration order *)

\* router.get(...) of routes/course.ts, as registered
CourseGetRoutes == <<
    [handler |-> "list", pattern |-> <<>>],
    [handler |-> "featured", pattern |-> <<Lit("featured")>>],
    [handler |-> "categories", pattern |-> <<Lit("categories")>>],
    [handler |-> "category", pattern |-> <<Lit("category"), Par("category")>>],
    [handler |-> "search", pattern |-> <<Lit("search")>>],
    [handler |-> "byId", pattern |-> <<Par("id")>>],
    [handler |-> "similar", pattern |-> <<Par("id"), Lit("similar")>>] >>

\* the defaults of limit in GET /courses/featured and GET /courses/:id/similar
FeaturedLimit == 8
SimilarLimit == 4

\* parseInt(limit.toString()) with the default of the destructuring
LimitOr(q, default) ==
    ParseInt(IF Present(q.limit) THEN Val(q.limit) ELSE NumberToString(default))

\* GET /courses/featured
FeaturedResponse(store, q) ==
    [status |-> 200,
     courses |-> Slice(SelectSeq(store, LAMBDA c : c.featured), Num(0),
                       LimitOr(q, FeaturedLimit))]

\* [...new Set(values)]: the values without repetitions, in the order of
\* their first occurrence
RECURSIVE Distinct(_)
Distinct(values) ==
    IF values = <<>> THEN <<>>
    ELSE LET front == Distinct(SubSeq(values, 1, Len(values) - 1))
             last == values[Len(values)]
         IN  IF \E i \in 1..Len(front) : front[i] = last THEN front
             ELSE Append(front, last)

\* GET /courses/categories
CategoriesResponse(store) ==
    [status |-> 200,
     categories |-> Distinct([i \in 1..Len(store) |-> store[i].category])]

\* GET /courses/:id
CourseResponse(store, id) ==
    LET index == FindIndex(store, LAMBDA c : c.id = id)
    IN  IF index = 0 THEN [status |-> 404, error |-> "Course not found"]
        ELSE [status |-> 200, course |-> store[index]]

\* GET /courses/:id/similar
SimilarResponse(store, id, q) ==
    LET index == FindIndex(store, LAMBDA c : c.id = id)
    IN  IF index = 0 THEN [status |-> 404, error |-> "Course not found"]
        ELSE LET course == store[index]
             IN  [status |-> 200,
                  courses |->
                      Slice(SelectSeq(store,
                                      LAMBDA c : /\ c.id # id
                                                 /\ \/ c.category = course.category
                                                    \/ c.level = course.level),
                            Num(0), LimitOr(q, SimilarLimit))]

GetCourseRouterOp == "GET /courses/..."

\* the answer of the app when no route takes the request
RouteNotFound == [status |-> 404, error |-> "Not Found"]

\* a GET request to the course router with req.path and req.query: the first
\* matching route answers it
GetCourseRouter(path, query) ==
    LET handler == HandlerOf(CourseGetRoutes, path)
    IN  /\ request' = [op |-> GetCourseRouterOp, path |-> path, query |-> query,
                       handler |-> handler]
        /\ before' = mockEnrollments
        /\ response' =
               CASE handler = "list" -> CoursesResponse(mockCourses, query)
                 [] handler = "featured" -> FeaturedResponse(mockCourses, query)
                 [] handler = "categories" -> CategoriesResponse(mockCourses)
                 [] handler = "category" ->
                        CategoryResponse(mockCourses, path[2].text, query)
                 [] handler = "search" -> SearchResponse(mockCourses, query)
                 [] handler = "byId" -> CourseResponse(mockCourses, path[1].text)
                 [] handler = "similar" ->
                        SimilarResponse(mockCourses, path[1].text, query)
                 [] OTHER -> RouteNotFound
        /\ filteredCourses' =
               IF handler = "list"
               THEN ApplySorting(FilterCourses(mockCourses, query), query)
               ELSE <<>>
        /\ UNCHANGED <<mockEnrollments, mockCourses, clock, userVars>>

----------------------------------------------------------------------------
(* The GET routes of the user router, in registration order *)

\* router.get(...) of routes/user.ts, as registered
UserGetRoutes == <<
    [handler |-> "profile", pattern |-> <<Lit("profile"), Par("userId")>>],
    [handler |-> "enrollments", pattern |-> <<Par("userId"), Lit("enrollments")>>],
    [handler |-> "search", pattern |-> <<Lit("search")>>],
    [handler |-> "stats", pattern |-> <<Lit("stats")>>] >>

\* the characters of the texts the student records of the model hold
TextChars ==
    ("John" :> <<"J","o","h","n">>) @@
    ("Doe" :> <<"D","o","e">>) @@
    ("john.doe@example.com" :> <<"j","o","h","n",".","d","o","e","@","e","x","a","m","p","l","e",".","c","o","m">>) @@
    ("John Doe" :> <<"J","o","h","n"," ","D","o","e">>) @@
    ("Johnny" :> <<"J","o","h","n","n","y">>) @@
    ("Jane" :> <<"J","a","n","e">>) @@
    ("Smith" :> <<"S","m","i","t","h">>) @@
    ("jane.smith@example.com" :> <<"j","a","n","e",".","s","m","i","t","h","@","e","x","a","m","p","l","e",".","c","o","m">>) @@
    ("Jane Smith" :> <<"J","a","n","e"," ","S","m","i","t","h">>) @@
    ("Ada" :> <<"A","d","a">>) @@
    ("Byron" :> <<"B","y","r","o","n">>) @@
    ("ada@example.com" :> <<"a","d","a","@","e","x","a","m","p","l","e",".","c","o","m">>) @@
    ("Ada Byron" :> <<"A","d","a"," ","B","y","r","o","n">>)

\* one operand of the search filter: value.toLowerCase().includes(searchLower)
\* throws a TypeError when the value is not a string
FieldOutcome(value, searchLower) ==
    IF value.type # "string" THEN "throws"
    ELSE IF Includes(ToLowerCase(TextChars[value.v]), searchLower) THEN "yes"
    ELSE "no"

\* the filter predicate of GET /users/search on one student: the operands
\* are evaluated in turn until one matches or throws; display_name is
\* skipped when falsy
StudentOutcome(student, searchLower) ==
    LET first == FieldOutcome(student.First_name, searchLower)
        last == FieldOutcome(student.Last_name, searchLower)
        email == FieldOutcome(student.email, searchLower)
    IN  IF first # "no" THEN first
        ELSE IF last # "no" THEN last
        ELSE IF email # "no" THEN email
        ELSE IF student.display_name \in FalsyValues THEN "no"
        ELSE FieldOutcome(student.display_name, searchLower)

\* the default of limit in GET /users/search
UserSearchLimit == 20

\* GET /users/search; a TypeError of the filter is answered by the error
\* handling middleware
UserSearchResponse(users, students, q, env) ==
    IF ~TruthyText(q.q)
    THEN [status |-> 400, error |-> "Search query is required"]
    ELSE LET searchLower == ToLowerCase(Val(q.q))
         IN  IF \E i \in 1..Len(students) :
                    StudentOutcome(students[i], searchLower) = "throws"
             THEN [status |-> 500, error |-> "Internal Server Error",
                   message |-> ErrorMessage(env, "toLowerCase is not a function")]
             ELSE LET searchResults ==
                          SelectSeq(students,
                                    LAMBDA r : StudentOutcome(r, searchLower) = "yes")
                      limitedResults ==
                          Slice(searchResults, Num(0), LimitOr(q, UserSearchLimit))
                      profile(student) ==
                          LET user == UserIndex(users, student.id)
                          IN  [user |-> IF NotFound(user)
                                        THEN [id |-> student.id,
                                              email |-> student.email.v]
                                        ELSE users[user],
                               student |-> student]
                  IN  [status |-> 200,
                       users |-> [i \in 1..Len(limitedResults) |->
                                     profile(limitedResults[i])],
                       total |-> Len(searchResults),
                       query |-> Val(q.q)]

\* 30 days in the unit of the clock of the model, in which the seeded users
\* are older than that when the process starts
ThirtyDays == 5

\* student.academic_level || 'Not Specified'
LevelOf(student) ==
    IF student.academic_level \in FalsyValues THEN "Not Specified"
    ELSE student.academic_level.v

\* GET /users/stats at clock reading now
UserStatsResponse(users, students, now) ==
    [status |-> 200,
     total_users |-> Len(users),
     total_students |-> Len(students),
     academic_levels |->
         [level \in {LevelOf(students[i]) : i \in 1..Len(students)} |->
             Cardinality({i \in 1..Len(students) : LevelOf(students[i]) = level})],
     recent_signups |->
         Cardinality({i \in 1..Len(users) : users[i].created_at > now - ThirtyDays})]

\* the response of GET /users/:userId/enrollments
UserEnrollmentsResponse(users, userId) ==
    IF NotFound(UserIndex(users, userId))
    THEN [status |-> 404, error |-> "User not found"]
    ELSE [status |-> 200, enrollments |-> MockUserEnrollments,
          total |-> Len(MockUserEnrollments)]

GetUserRouterOp == "GET /users/..."

\* a GET request to the user router with req.path and req.query: the first
\* matching route answers it
GetUserRouter(path, query) ==
    LET handler == HandlerOf(UserGetRoutes, path)
    IN  \E now \in ClockReadings :
            /\ now >= clock
            /\ handler # "stats" => now = clock
            /\ request' = [op |-> GetUserRouterOp, path |-> path, query |-> query,
                           handler |-> handler]
            /\ before' = mockEnrollments
            /\ response' =
                   CASE handler = "profile" ->
                            ProfileResponse(mockUsers, mockStudents, path[2].text)
                     [] handler = "enrollments" ->
                            UserEnrollmentsResponse(mockUsers, path[1].text)
                     [] handler = "search" ->
                            UserSearchResponse(mockUsers, mockStudents, query, nodeEnv)
                     [] handler = "stats" ->
                            UserStatsResponse(mockUsers, mockStudents, now)
                     [] OTHER -> RouteNotFound
            /\ clock' = now
            /\ filteredCourses' = <<>>
            /\ UNCHANGED <<mockEnrollments, mockCourses, userVars>>

----------------------------------------------------------------------------
(* GET /auth/me and the GET routes of the app: /health, / and /hello *)

GetAppOp == "GET /..."

\* app.get(...) of index.ts and router.get("/me") of routes/auth.ts
AppGetRoutes == <<
    [handler |-> "health", pattern |-> <<Lit("health")>>],
    [handler |-> "me", pattern |-> <<Lit("auth"), Lit("me")>>],
    [handler |-> "root", pattern |-> <<>>],
    [handler |-> "hello", pattern |-> <<Lit("hello")>>] >>

\* the answers, none of which reads a store; /health, /auth/me and /hello
\* read the clock
GetApp(path) ==
    LET handler == HandlerOf(AppGetRoutes, path)
    IN  \E now \in ClockReadings :
            /\ now >= clock
            /\ handler \in {"root", "none"} => now = clock
            /\ request' = [op |-> GetAppOp, path |-> path, handler |-> handler]
            /\ before' = mockEnrollments
            /\ response' =
                   CASE handler = "health" ->
                            [status |-> 200, timestamp |-> now]
                     [] handler = "me" ->
                            [status |-> 200,
                             user |-> [id |-> "user_123", email |-> "user@example.com",
                                       created_at |-> now]]
                     [] handler = "root" -> [status |-> 200, name |-> "Scholarbase API"]
                     [] handler = "hello" ->
                            [status |-> 200, timestamp |-> now]
                     [] OTHER -> RouteNotFound
            /\ clock' = now
            /\ filteredCourses' = <<>>
            /\ UNCHANGED <<mockEnrollments, mockCourses, userVars>>

----------------------------------------------------------------------------
(* The API as started: the seeded stores and the handlers *)

Init ==
    /\ mockEnrollments = SeedEnrollments
    /\ mockCourses = SeedCourses
    /\ clock = ProcessStart
    /\ request = NoRequest
    /\ response = NoResponse
    /\ before = SeedEnrollments
    /\ filteredCourses = <<>>
    /\ mockUsers = SeedUsers
    /\ mockStudents = SeedStudents
    /\ nodeEnv = None

Next ==
    \/ PostEnrollment
    \/ DeleteEnrollment
    \/ Unenroll

Spec == Init /\ [][Next]_vars

----------------------------------------------------------------------------
(* The whole API: every handler that writes a store, the GET routes of the
   enrollment router, and the read handlers of the other routers, each on a
   few requests *)

\* the requests
AppEnrollmentBodies ==
    {[student_id |-> Some("user_789"), course_id |-> Some("course_9"), tutor_id |-> None],
     [student_id |-> Some("user_123"), course_id |-> Some("course_1"), tutor_id |-> None],
     [student_id |-> None, course_id |-> Some("course_1"), tutor_id |-> None]}
AppEnrollmentIds == {SeedEnrollments[1].id, ProcessStart}
AppUnenrollBodies == [course_id : OptionOf({"course_2"})]
AppGetPaths ==
    {<<Literal("stats")>>, <<Literal("check")>>,
     <<IdSegment(SeedEnrollments[1].id)>>, <<IdSegment(ProcessStart)>>,
     <<Literal("student"), Literal("user_123")>>,
     <<Literal("course"), Literal("course_1")>>,
     <<Literal("course"), Literal("course_1"), Literal("count")>>,
     <<Literal("course"), Literal("course_1"), Literal("students")>>}
AppGetQueries ==
    {NoEnrollmentQuery,
     [include_courses |-> Some("true"), include_students |-> Some("true"),
      student_id |-> Some("user_123"), course_id |-> Some("course_1")]}

NoCourseQuery ==
    [search |-> None, category |-> None, level |-> None, featured |-> None,
     priceMin |-> None, priceMax |-> None, sortBy |-> None, limit |-> None,
     offset |-> None]
LevelBeginner == [NoCourseQuery EXCEPT !.level = Some("Beginner")]
SortByPriceHigh == [NoCourseQuery EXCEPT !.sortBy = Some("price-high")]
SearchFor(q) == [q |-> q, limit |-> None, offset |-> None]
SearchReact == SearchFor(Some(<<"r","e","a","c","t">>))

SignupBody ==
    [email |-> Some(JsString("ada@example.com")), password |-> Some(JsString("secret")),
     firstName |-> Some(JsString("Ada")), lastName |-> Some(JsString("Byron")),
     displayName |-> None, academicLevel |-> None]

AppPostEnrollment == \E body \in AppEnrollmentBodies : PostEnrollmentOf(body)

AppDeleteEnrollment ==
    \E enrollmentId \in AppEnrollmentIds : DeleteEnrollmentOf(enrollmentId)

AppUnenroll == \E body \in AppUnenrollBodies : UnenrollOf("user_456", body)

AppGetEnrollments ==
    \E path \in AppGetPaths, query \in AppGetQueries : GetEnrollments(path, query)

AppGetUserEnrollments == \E userId \in UserIdValues : GetUserEnrollments(userId)

AppGetCourses ==
    \E q \in {NoCourseQuery, LevelBeginner, SortByPriceHigh} : GetCoursesOf(q)

AppSearchCourses == \E q \in {SearchFor(None), SearchReact} : SearchCourses(q)

AppSignup == Signup(SignupBody)

NextApp ==
    \/ AppPostEnrollment
    \/ AppDeleteEnrollment
    \/ AppUnenroll
    \/ AppGetEnrollments
    \/ AppPutProfile
    \/ AppCreateProfile
    \/ AppGetUserEnrollments
    \/ AppGetCourses
    \/ AppSearchCourses
    \/ AppSignup

SpecApp == Init /\ [][NextApp]_vars

----------------------------------------------------------------------------
(* Properties of the enrollment handlers *)

PostOp == "POST /enrollments"
DeleteOp == "DELETE /enrollments/:enrollmentId"
UnenrollOp == "POST /enrollments/student/:studentId/unenroll"

\* the records of store for the pair (student_id, course_id)
PairCount(store, student_id, course_id) ==
    Cardinality({i \in 1..Len(store) : SamePair(store[i], student_id, course_id)})

\* the last request was a POST /enrollments that carried both identifiers
PostOfPair ==
    /\ request.op = PostOp
    /\ Truthy(request.body.student_id) /\ Truthy(request.body.course_id)

\* C1: in every state reachable by POST /enrollments, DELETE
\* /enrollments/:enrollmentId and POST .../unenroll requests, no two records
\* of the enrollment store have the same (student_id, course_id) pair.
C1_PairsUnique ==
    \A i, j \in 1..Len(mockEnrollments) :
        SamePair(mockEnrollments[i], mockEnrollments[j].student_id,
                 mockEnrollments[j].course_id) => i = j

\* a pair was enrolled again after its record had been deleted
C1_Witness ==
    /\ request.op = PostOp /\ response.status = 201
    /\ response.enrollment.student_id = "user_123"
    /\ response.enrollment.course_id = "course_1"
    /\ Len(mockEnrollments) >= 2

\* C2: POST /enrollments with a pair the enrollment store already holds
\* responds 409 and leaves the store unchanged.
C2_DuplicateIsConflict ==
    (PostOfPair /\ PairCount(before, Val(request.body.student_id),
                             Val(request.body.course_id)) > 0) =>
        /\ response.status = 409
        /\ mockEnrollments = before

\* the scenario of the specification: the seeded store and the pair
\* (user_123, course_1)
C2_Witness ==
    /\ PostOfPair
    /\ Val(request.body.student_id) = "user_123"
    /\ Val(request.body.course_id) = "course_1"
    /\ before = SeedEnrollments
    /\ response.status = 409
    /\ Len(mockEnrollments) = 2

\* C3: for a pair not in the store, the first POST /enrollments responds 201
\* and appends exactly one record with the two identifiers at the end of the
\* store, leaving the earlier records unchanged; a second POST with the same
\* pair directly after it responds 409 and the store holds exactly one record
\* of the pair.
C3_EnrollTwice ==
    [][/\ (request'.op = PostOp
            /\ Truthy(request'.body.student_id) /\ Truthy(request'.body.course_id)
            /\ PairCount(mockEnrollments, Val(request'.body.student_id),
                         Val(request'.body.course_id)) = 0) =>
              /\ response'.status = 201
              /\ Len(mockEnrollments') = Len(mockEnrollments) + 1
              /\ SubSeq(mockEnrollments', 1, Len(mockEnrollments)) = mockEnrollments
              /\ SamePair(mockEnrollments'[Len(mockEnrollments')],
                          Val(request'.body.student_id), Val(request'.body.course_id))
       /\ (PostOfPair /\ response.status = 201 /\ request'.op = PostOp
            /\ request'.body.student_id = request.body.student_id
            /\ request'.body.course_id = request.body.course_id) =>
              /\ response'.status = 409
              /\ PairCount(mockEnrollments', Val(request.body.student_id),
                           Val(request.body.course_id)) = 1
      ]_vars

\* the second POST of a pair was refused and the record the first one
\* appended is the last of the store
C3_Witness ==
    /\ PostOfPair /\ response.status = 409
    /\ Len(mockEnrollments) = 3
    /\ mockEnrollments[3].id >= ProcessStart
    /\ SamePair(mockEnrollments[3], Val(request.body.student_id),
                Val(request.body.course_id))

\* the last request was a deletion that names an id, or a pair with a
\* course_id, that no record of the store had
DeletionOfNothing ==
    \/ /\ request.op = DeleteOp
       /\ \A i \in 1..Len(before) : before[i].id # request.enrollmentId
    \/ /\ request.op = UnenrollOp
       /\ Truthy(request.body.course_id)
       /\ PairCount(before, request.studentId, Val(request.body.course_id)) = 0

\* C4: DELETE /enrollments/:enrollmentId with an id no record has, and POST
\* .../unenroll with a pair no record has, respond 404 and leave the
\* enrollment store unchanged.
C4_DeleteMissingIsNotFound ==
    DeletionOfNothing => (response.status = 404 /\ mockEnrollments = before)

\* both deletions were refused on a store that holds records
C4_Witness ==
    /\ request.op = UnenrollOp
    /\ request.studentId = "user_123"
    /\ Truthy(request.body.course_id) /\ Val(request.body.course_id) = "course_2"
    /\ response.status = 404
    /\ Len(mockEnrollments) = 3

\* record e matches the deletion request
MatchesDeletion(e) ==
    IF request.op = DeleteOp
    THEN e.id = request.enrollmentId
    ELSE SamePair(e, request.studentId, Val(request.body.course_id))

\* C5: a successful deletion, by id or by student and course, removes exactly
\* one record, one that matches the request; the store shrinks by 1 and every
\* other record stays, in the same relative order.
C5_DeleteRemovesOne ==
    (request.op \in {DeleteOp, UnenrollOp} /\ response.status = 200) =>
        /\ Len(mockEnrollments) = Len(before) - 1
        /\ \E i \in 1..Len(before) :
               /\ MatchesDeletion(before[i])
               /\ mockEnrollments =
                      [k \in 1..(Len(before) - 1) |->
                          IF k < i THEN before[k] ELSE before[k + 1]]

\* a record was removed from the middle of a store of three
C5_Witness ==
    /\ request.op = DeleteOp /\ response.status = 200
    /\ Len(before) = 3
    /\ before[2].id = request.enrollmentId
    /\ mockEnrollments = <<before[1], before[3]>>

----------------------------------------------------------------------------
(* The course query on its own: GET /courses on every course store *)

InitCourses ==
    /\ mockEnrollments = SeedEnrollments
    /\ mockCourses \in CourseStores
    /\ clock = ProcessStart
    /\ request \in {[op |-> "GET /courses", query |-> q] : q \in CourseQueries}
    /\ response = NoResponse
    /\ before = SeedEnrollments
    /\ filteredCourses = <<>>
    /\ mockUsers = SeedUsers
    /\ mockStudents = SeedStudents
    /\ nodeEnv = None

NextCourses == GetCourses

SpecCourses == InitCourses /\ [][NextCourses]_vars

----------------------------------------------------------------------------
(* The catalogue endpoints on their own: GET /courses, GET /courses/search
   and GET /courses/category/:category on every course store *)

\* the values of the requests
CatalogueOffsets == OffsetValues \cup {<<"0">>, <<"3">>}
CatalogueLimits == LimitValues \cup {<<"x">>}
PathCategories == {"Programming", "Design", "Jazz"}
SearchTexts == {<<>>, <<"r","e","a","c","t">>, <<"a">>}

\* req.query of GET /courses with a category, a limit and an offset at most
PagedQueries ==
    {[NoCourseQuery EXCEPT !.category = category, !.limit = limit, !.offset = offset] :
        category \in OptionOf(PathCategories),
        limit \in OptionOf(CatalogueLimits),
        offset \in OptionOf(CatalogueOffsets)}

\* req.query of GET /courses/search
SearchQueries ==
    [q : OptionOf(SearchTexts), limit : OptionOf(CatalogueLimits),
     offset : OptionOf(CatalogueOffsets)]

\* req.query of GET /courses/category/:category
CategoryQueries == [limit : OptionOf(CatalogueLimits)]

InitCatalogue ==
    /\ mockEnrollments = SeedEnrollments
    /\ mockCourses \in CourseStores
    /\ clock = ProcessStart
    /\ request \in
           {[op |-> "GET /courses", query |-> q] : q \in PagedQueries}
           \cup {[op |-> SearchCoursesOp, query |-> q] : q \in SearchQueries}
           \cup {[op |-> CategoryCoursesOp, category |-> category, query |-> q] :
                     category \in PathCategories, q \in CategoryQueries}
    /\ response = NoResponse
    /\ before = SeedEnrollments
    /\ filteredCourses = <<>>
    /\ mockUsers = SeedUsers
    /\ mockStudents = SeedStudents
    /\ nodeEnv = None

\* the handlers answer the request that is pending
SearchCoursesPending ==
    /\ request.op = SearchCoursesOp
    /\ response = NoResponse
    /\ SearchCourses(request.query)

GetCategoryCoursesPending ==
    /\ request.op = CategoryCoursesOp
    /\ response = NoResponse
    /\ GetCategoryCourses(request.category, request.query)

NextCatalogue ==
    \/ GetCourses
    \/ SearchCoursesPending
    \/ GetCategoryCoursesPending

SpecCatalogue == InitCatalogue /\ [][NextCatalogue]_vars

----------------------------------------------------------------------------
(* One request to /users, or one that throws, on any state of the student
   store the API reaches *)

\* the record POST /users/create-profile stores for the required fields
CreatedStudent(id, now) ==
    [id |-> id,
     First_name |-> JsString("Ada"), Last_name |-> JsString("Byron"),
     email |-> JsString("ada@example.com"),
     display_name |-> JsString("Ada Byron"),
     academic_level |-> JsNull, profile_picture |-> JsNull,
     created_at |-> now, updated_at |-> None]

\* ids of the profiles created since the process started
CreatedIds == <<"user_789", "user_790", "user_791">>

\* student stores the API reaches: the seeded records, the first one as
\* seeded or updated, followed by up to MaxProfiles created profiles
StudentStores ==
    {<<first, SeedStudents[2]>> \o created :
        first \in {SeedStudents[1],
                   MergeProfile(SeedStudents[1], OnlyDisplayName(JsString("Johnny")),
                                ProcessStart)},
        created \in {<<>>} \cup
            {[i \in 1..n |-> CreatedStudent(CreatedIds[i], ProcessStart)] :
                n \in 1..Min(MaxProfiles, Len(CreatedIds))}}

InitRequest ==
    /\ mockEnrollments = SeedEnrollments
    /\ mockCourses = SeedCourses
    /\ clock = ProcessStart
    /\ mockUsers = SeedUsers
    /\ mockStudents \in StudentStores
    /\ nodeEnv \in NodeEnvValues
    /\ request \in
           {[op |-> PutProfileOp, userId |-> userId, body |-> body] :
                userId \in UserIdValues, body \in ProfileBodies}
           \cup {[op |-> CreateProfileOp, body |-> body] : body \in CreateBodies}
           \cup {[op |-> ThrowsOp, err |-> message] : message \in ErrorMessages}
    /\ response = NoResponse
    /\ before = SeedEnrollments
    /\ filteredCourses = <<>>

NextRequest ==
    \/ PutProfilePending
    \/ CreateProfilePending
    \/ ErrorMiddleware

SpecRequest == InitRequest /\ [][NextRequest]_vars

----------------------------------------------------------------------------
(* The profile endpoints in sequence: POST /users/create-profile, PUT and GET
   /users/profile/:userId on the stores as seeded *)

\* the requests
ProfileUserIds == UserIdValues \cup {"user_790"}
ProfilePutBodies == {OnlyDisplayName(JsString("Johnny"))}
ProfileCreateBodies ==
    {RequiredOnly(id) : id \in ProfileUserIds}
    \cup {[RequiredOnly("user_790") EXCEPT !.lastName = None]}

ProfilesPut ==
    \E userId \in ProfileUserIds, body \in ProfilePutBodies : PutProfile(userId, body)

ProfilesCreate == \E body \in ProfileCreateBodies : CreateProfile(body)

ProfilesGet == \E userId \in ProfileUserIds : GetProfile(userId)

NextProfiles ==
    \/ ProfilesPut
    \/ ProfilesCreate
    \/ ProfilesGet

SpecProfiles == Init /\ [][NextProfiles]_vars

----------------------------------------------------------------------------
(* The read endpoints: every GET route of the four routers and of the app, on
   stores the API reaches *)

\* enrollment stores the API reaches: as seeded, after the removal of the
\* first record, and after one creation
ReadEnrollmentStores ==
    {SeedEnrollments,
     <<SeedEnrollments[2]>>,
     Push(SeedEnrollments,
          [id |-> ProcessStart, created_at |-> ProcessStart,
           student_id |-> "user_789", course_id |-> "course_9", tutor_id |-> None])}

\* the requests
NoReadQuery == [q |-> None] @@ NoCourseQuery
ReadCourseQueries ==
    {NoReadQuery,
     [NoReadQuery EXCEPT !.limit = Some(<<"1">>)],
     [NoReadQuery EXCEPT !.q = Some(<<"r","e","a","c","t">>)],
     [NoReadQuery EXCEPT !.sortBy = Some("price-high")]}
ReadCoursePaths ==
    {<<>>, <<Literal("featured")>>, <<Literal("categories")>>,
     <<Literal("category"), Literal("Programming")>>,
     <<Literal("category"), Literal("Jazz")>>,
     <<Literal("search")>>, <<Literal("course_1")>>, <<Literal("course_9")>>,
     <<Literal("course_1"), Literal("similar")>>,
     <<Literal("course_1"), Literal("lessons")>>}
ReadUserQueries ==
    {[q |-> None, limit |-> None],
     [q |-> Some(<<"J","O">>), limit |-> None],
     [q |-> Some(<<"a">>), limit |-> Some(<<"1">>)]}
ReadUserPaths ==
    {<<Literal("profile"), Literal("user_123")>>,
     <<Literal("profile"), Literal("user_789")>>,
     <<Literal("user_123"), Literal("enrollments")>>,
     <<Literal("user_789"), Literal("enrollments")>>,
     <<Literal("search")>>, <<Literal("stats")>>, <<Literal("user_123")>>}
ReadAppPaths ==
    {<<>>, <<Literal("health")>>, <<Literal("hello")>>,
     <<Literal("auth"), Literal("me")>>, <<Literal("lessons")>>}

InitReads ==
    /\ mockEnrollments \in ReadEnrollmentStores
    /\ mockCourses = SeedCourses
    /\ clock = ProcessStart
    /\ request = NoRequest
    /\ response = NoResponse
    /\ before = mockEnrollments
    /\ filteredCourses = <<>>
    /\ mockUsers = SeedUsers
    /\ mockStudents \in StudentStores
    /\ nodeEnv = None

ReadEnrollments ==
    \E path \in AppGetPaths, query \in AppGetQueries : GetEnrollments(path, query)

ReadCourses ==
    \E path \in ReadCoursePaths, query \in ReadCourseQueries :
        GetCourseRouter(path, query)

ReadUsers ==
    \E path \in ReadUserPaths, query \in ReadUserQueries : GetUserRouter(path, query)

ReadApp == \E path \in ReadAppPaths : GetApp(path)

NextReads ==
    \/ ReadEnrollments
    \/ ReadCourses
    \/ ReadUsers
    \/ ReadApp

SpecReads == InitReads /\ [][NextReads]_vars

----------------------------------------------------------------------------
(* Properties of GET /courses *)

\* GET /courses has answered the pending request
CoursesAnswered == request.op = "GET /courses" /\ response.status = 200

\* the position of record c in the sequence store (its records are distinct)
Pos(store, c) == CHOOSE i \in 1..Len(store) : store[i] = c

\* seq lists records of store in the relative order they have in store
InStoreOrder(seq, store) ==
    \A i, j \in 1..Len(seq) : i < j => Pos(store, seq[i]) < Pos(store, seq[j])

\* a criterion counts as supplied when the parameter is present in the query
SatisfiesSupplied(c, q) ==
    /\ Present(q.search) =>
           LET needle == ToLowerCase(Val(q.search))
           IN  \E text \in {c.title, c.instructor, c.description} :
                   Includes(ToLowerCase(text), needle)
    /\ Present(q.category) => c.category = Val(q.category)
    /\ Present(q.level) => c.level = Val(q.level)
    /\ Present(q.featured) => (c.featured <=> (Val(q.featured) = "true"))
    /\ Present(q.priceMin) => JsGe(Num(c.price), ParseFloat(Val(q.priceMin)))
    /\ Present(q.priceMax) => JsLe(Num(c.price), ParseFloat(Val(q.priceMax)))

\* a criterion other than featured counts as supplied when the parameter is
\* present and not the empty string; featured whenever it is present
SatisfiesNonEmpty(c, q) ==
    /\ (Present(q.search) /\ Val(q.search) # <<>>) =>
           LET needle == ToLowerCase(Val(q.search))
           IN  \E text \in {c.title, c.instructor, c.description} :
                   Includes(ToLowerCase(text), needle)
    /\ (Present(q.category) /\ Val(q.category) # "") => c.category = Val(q.category)
    /\ (Present(q.level) /\ Val(q.level) # "") => c.level = Val(q.level)
    /\ Present(q.featured) => (c.featured <=> (Val(q.featured) = "true"))
    /\ (Present(q.priceMin) /\ Val(q.priceMin) # <<>>) =>
           JsGe(Num(c.price), ParseFloat(Val(q.priceMin)))
    /\ (Present(q.priceMax) /\ Val(q.priceMax) # <<>>) =>
           JsLe(Num(c.price), ParseFloat(Val(q.priceMax)))

\* the request that differs from q in supplying neither limit nor offset
WithoutPaging(q) == [q EXCEPT !.limit = None, !.offset = None]

\* the total reported is the one reported without limit and offset, hence
\* the same for any two requests that differ only in limit and offset
TotalIgnoresPaging ==
    CoursesResponse(mockCourses, WithoutPaging(request.query)).total = response.total

\* C6 as stated: the reported total of GET /courses is the number of courses
\* of the store that satisfy every criterion supplied in the query, and it is
\* the same for requests that differ only in limit and offset.
C6_TotalCountsSupplied ==
    CoursesAnswered =>
        /\ response.total =
               Cardinality({i \in 1..Len(mockCourses) :
                               SatisfiesSupplied(mockCourses[i], request.query)})
        /\ TotalIgnoresPaging

\* C6 as amended: the reported total of GET /courses is the number of courses
\* of the store that satisfy every criterion supplied, where search, category,
\* level, priceMin and priceMax given as the empty string count as not
\* supplied; it is the same for requests that differ only in limit and offset.
C6_TotalCountsNonEmpty ==
    CoursesAnswered =>
        /\ response.total =
               Cardinality({i \in 1..Len(mockCourses) :
                               SatisfiesNonEmpty(mockCourses[i], request.query)})
        /\ TotalIgnoresPaging

\* a filtered request answered with fewer courses than the store holds and
\* with a total that pagination has cut further
C6_Witness ==
    /\ CoursesAnswered
    /\ Present(request.query.category) /\ Present(request.query.limit)
    /\ response.total = 2
    /\ Len(mockCourses) = 3
    /\ Len(response.courses) = 1

ElementsOf(seq) == {seq[i] : i \in 1..Len(seq)}

\* C7 as stated: before pagination the sequence computed by GET /courses holds
\* exactly the courses of the store that satisfy every criterion supplied in
\* the query, each once.
C7_FilterSupplied ==
    CoursesAnswered =>
        /\ ElementsOf(filteredCourses) =
               {c \in ElementsOf(mockCourses) : SatisfiesSupplied(c, request.query)}
        /\ Cardinality(ElementsOf(filteredCourses)) = Len(filteredCourses)

\* C7 as amended: before pagination the sequence computed by GET /courses
\* holds exactly the courses of the store that satisfy every criterion
\* supplied, each once, where search, category, level, priceMin and priceMax
\* given as the empty string count as not supplied (featured counts whenever
\* it is present).
C7_FilterNonEmpty ==
    CoursesAnswered =>
        /\ ElementsOf(filteredCourses) =
               {c \in ElementsOf(mockCourses) : SatisfiesNonEmpty(c, request.query)}
        /\ Cardinality(ElementsOf(filteredCourses)) = Len(filteredCourses)

\* two criteria that each exclude a course of the store the other one keeps
C7_Witness ==
    /\ CoursesAnswered
    /\ Present(request.query.level) /\ Val(request.query.level) = "Beginner"
    /\ Present(request.query.featured) /\ Val(request.query.featured) = "true"
    /\ Len(mockCourses) = 3
    /\ Len(filteredCourses) = 1

SortKeys == {"price-low", "price-high", "rating", "newest", "popular"}

\* a comes no later than b in the order sort key names
InKeyOrder(key, a, b) ==
    CASE key = "price-low" -> a.price <= b.price
      [] key = "price-high" -> a.price >= b.price
      [] key = "rating" -> a.rating >= b.rating
      [] key = "newest" -> GetTime(a.created_at) >= GetTime(b.created_at)
      [] key = "popular" -> a.student_count >= b.student_count

\* a and b have the same value of the field sort key names
SameKey(key, a, b) == InKeyOrder(key, a, b) /\ InKeyOrder(key, b, a)

\* C8: for each of the five sort keys the list GET /courses returns is
\* monotonic in that key, and courses with equal key values keep the relative
\* order they have in the store.
C8_SortedAndStable ==
    (CoursesAnswered /\ Present(request.query.sortBy)
        /\ Val(request.query.sortBy) \in SortKeys) =>
        LET key == Val(request.query.sortBy)
            out == response.courses
        IN  \A i, j \in 1..Len(out) : i < j =>
                /\ InKeyOrder(key, out[i], out[j])
                /\ SameKey(key, out[i], out[j]) =>
                       Pos(mockCourses, out[i]) < Pos(mockCourses, out[j])

\* a sort that moved a course forward and kept two courses with equal keys
\* in store order
C8_Witness ==
    /\ CoursesAnswered
    /\ Present(request.query.sortBy) /\ Val(request.query.sortBy) = "price-low"
    /\ Len(response.courses) = 3
    /\ response.courses[1] = mockCourses[3]
    /\ SameKey("price-low", response.courses[2], response.courses[3])

NonIncreasingStudentCount(seq) ==
    \A i, j \in 1..Len(seq) : i < j => seq[i].student_count >= seq[j].student_count

\* C9 as stated: without a sortBy parameter the result of GET /courses is in
\* descending student_count order.
C9_DefaultIsPopular ==
    (CoursesAnswered /\ ~Present(request.query.sortBy)) =>
        NonIncreasingStudentCount(response.courses)

\* C9 as amended: without a sortBy parameter, or with an empty one, GET
\* /courses applies no sort: the courses it computes and returns keep the
\* relative order they have in the store.
C9_DefaultIsStoreOrder ==
    (CoursesAnswered /\ ~Truthy(request.query.sortBy)) =>
        /\ InStoreOrder(filteredCourses, mockCourses)
        /\ InStoreOrder(response.courses, mockCourses)

\* a request without sortBy answered with courses in ascending student_count
C9_Witness ==
    /\ CoursesAnswered
    /\ ~Present(request.query.sortBy)
    /\ Len(response.courses) >= 2
    /\ ~NonIncreasingStudentCount(response.courses)

\* the limit and offset the claim speaks of: the number supplied, 20 and 0
\* when none is supplied
ClaimedLimit(q) == IF Present(q.limit) THEN ParseInt(Val(q.limit)) ELSE Num(20)
ClaimedOffset(q) == IF Present(q.offset) THEN ParseInt(Val(q.offset)) ELSE Num(0)

\* the elements of seq at the 0-based positions from to from+count-1 that
\* exist, in order
RECURSIVE ElementsAt(_, _, _)
ElementsAt(seq, from, count) ==
    IF count <= 0 THEN <<>>
    ELSE (IF from >= 0 /\ from < Len(seq) THEN <<seq[from + 1]>> ELSE <<>>)
             \o ElementsAt(seq, from + 1, count - 1)

\* C10: GET /courses uses limit 20 and offset 0 when they are not supplied
\* (the limit it used is the one it reports), returns exactly the elements
\* of the filtered and sorted sequence at
\* positions offset to offset+limit-1, in that order, never more than limit
\* courses, and none when offset is at or past the end.
C10_PageIsTheWindow ==
    (CoursesAnswered /\ IsNum(ClaimedLimit(request.query))
        /\ IsNum(ClaimedOffset(request.query))) =>
        LET limit == ClaimedLimit(request.query).v
            offset == ClaimedOffset(request.query).v
        IN  /\ response.limit = Num(limit)
            /\ response.courses = ElementsAt(filteredCourses, offset, limit)
            /\ Len(response.courses) <= limit
            /\ offset >= Len(filteredCourses) => response.courses = <<>>

\* C10 as amended: for a limit and an offset that are absent (20 and 0 are
\* used) or parse to integers >= 0, GET /courses returns exactly the elements
\* of the filtered and sorted sequence at positions offset to offset+limit-1,
\* in that order, never more than limit courses, and none when offset is at
\* or past the end.
C10_PageIsTheWindowFromZero ==
    (CoursesAnswered /\ IsNum(ClaimedLimit(request.query))
        /\ IsNum(ClaimedOffset(request.query))
        /\ ClaimedLimit(request.query).v >= 0
        /\ ClaimedOffset(request.query).v >= 0) =>
        LET limit == ClaimedLimit(request.query).v
            offset == ClaimedOffset(request.query).v
        IN  /\ response.limit = Num(limit)
            /\ response.courses = ElementsAt(filteredCourses, offset, limit)
            /\ Len(response.courses) <= limit
            /\ offset >= Len(filteredCourses) => response.courses = <<>>

\* a page of one course cut out of the middle of three
C10_Witness ==
    /\ CoursesAnswered
    /\ Present(request.query.limit) /\ Present(request.query.offset)
    /\ Len(filteredCourses) = 3
    /\ response.courses = <<filteredCourses[2]>>

----------------------------------------------------------------------------
(* Properties of PUT /users/profile/:userId and POST /users/create-profile *)

\* this step answers the pending request to operation op
Answers(op) == request.op = op /\ response = NoResponse /\ response' # NoResponse

\* store holds a student record with the id
HasStudent(store, id) == \E i \in 1..Len(store) : store[i].id = id

\* the position of the student record with the id
PositionOf(store, id) == CHOOSE i \in 1..Len(store) : store[i].id = id

\* the fields of a student record a profile update may not touch when the
\* body supplies display_name only
KeptFields == {"id", "First_name", "Last_name", "email", "academic_level",
               "profile_picture", "created_at"}

\* the user, course and enrollment stores are the same after the step
OtherStoresUnchanged ==
    /\ mockUsers' = mockUsers
    /\ mockCourses' = mockCourses
    /\ mockEnrollments' = mockEnrollments

\* C11: a PUT /users/profile/:userId on an existing student record whose body
\* supplies only a non-empty display_name stores that display_name and an
\* updated_at, keeps id, First_name, Last_name, email, academic_level,
\* profile_picture and created_at of the record, and changes no other student
\* record and no other store.
C11_OnlyDisplayNameChanges ==
    [][(/\ Answers(PutProfileOp)
        /\ HasStudent(mockStudents, request.userId)
        /\ Present(request.body.display_name)
        /\ Val(request.body.display_name).type = "string"
        /\ Val(request.body.display_name).v # ""
        /\ request.body = OnlyDisplayName(Val(request.body.display_name)))
       => LET i == PositionOf(mockStudents, request.userId)
          IN  /\ Len(mockStudents') = Len(mockStudents)
              /\ mockStudents'[i].display_name = Val(request.body.display_name)
              /\ mockStudents'[i].updated_at = Some(clock')
              /\ \A f \in KeptFields : mockStudents'[i][f] = mockStudents[i][f]
              /\ \A j \in 1..Len(mockStudents) :
                     j # i => mockStudents'[j] = mockStudents[j]
              /\ OtherStoresUnchanged]_vars

\* the profile of user_456, picture included, after an update of its
\* display_name alone
C11_Witness ==
    /\ request.op = PutProfileOp /\ response.status = 200
    /\ request.userId = "user_456"
    /\ request.body = OnlyDisplayName(JsString("Ann"))
    /\ mockStudents[2].display_name = JsString("Ann")
    /\ mockStudents[2].profile_picture = JsString("/avatars/jane.jpg")

\* the fields PUT /users/profile/:userId merges when the value is truthy
TruthyMerged == {"First_name", "Last_name", "display_name", "academic_level"}

\* C12: in PUT /users/profile/:userId each of First_name, Last_name,
\* display_name and academic_level replaces the stored value exactly when the
\* body supplies a truthy value for it (absent, "", null, false and 0 leave it
\* untouched); profile_picture replaces the stored value whenever it is
\* present, null included, and is untouched only when absent.
C12_TruthyMerge ==
    [][(Answers(PutProfileOp) /\ HasStudent(mockStudents, request.userId))
       => LET i == PositionOf(mockStudents, request.userId)
              old == mockStudents[i]
              new == mockStudents'[i]
          IN  /\ \A f \in TruthyMerged :
                     LET supplied == request.body[f]
                     IN  /\ (/\ Present(supplied)
                             /\ Val(supplied) \notin {JsString(""), JsNull, JsFalse, JsZero})
                                => new[f] = Val(supplied)
                         /\ (\/ ~Present(supplied)
                             \/ Val(supplied) \in {JsString(""), JsNull, JsFalse, JsZero})
                                => new[f] = old[f]
              /\ Present(request.body.profile_picture)
                     => new.profile_picture = Val(request.body.profile_picture)
              /\ ~Present(request.body.profile_picture)
                     => new.profile_picture = old.profile_picture]_vars

\* an update that supplied an empty First_name, which was ignored, and a null
\* profile_picture, which replaced the stored picture
C12_Witness ==
    /\ request.op = PutProfileOp /\ response.status = 200
    /\ request.userId = "user_456"
    /\ request.body.First_name = Some(JsString(""))
    /\ request.body.profile_picture = Some(JsNull)
    /\ mockStudents[2].First_name = JsString("Jane")
    /\ mockStudents[2].profile_picture = JsNull

\* C13: PUT /users/profile/:userId with an identifier no student record has
\* answers 404 and leaves the student store as it is, whether or not the user
\* store holds a record with the identifier.
C13_UnknownProfileNotFound ==
    [][(Answers(PutProfileOp) /\ ~HasStudent(mockStudents, request.userId))
       => /\ response'.status = 404
          /\ mockStudents' = mockStudents]_vars

\* an update of several fields for user_789, who has no student record,
\* answered 404
C13_Witness ==
    /\ request.op = PutProfileOp /\ response.status = 404
    /\ request.userId = "user_789"
    /\ TruthyValue(request.body.display_name)
    /\ Present(request.body.profile_picture)
    /\ ~HasStudent(mockStudents, "user_789")

\* the body of a POST /users/create-profile has every required field
RequiredSupplied(body) ==
    /\ Truthy(body.id) /\ TruthyValue(body.firstName)
    /\ TruthyValue(body.lastName) /\ TruthyValue(body.email)

\* C14 as stated: POST /users/create-profile with all required fields and the
\* id of an existing student record answers 409 and leaves the student store
\* unchanged.
C14_DuplicateProfileIsConflict ==
    [][(/\ Answers(CreateProfileOp)
        /\ RequiredSupplied(request.body)
        /\ HasStudent(mockStudents, Val(request.body.id)))
       => /\ response'.status = 409
          /\ mockStudents' = mockStudents]_vars

\* C14 as amended: POST /users/create-profile with all required fields and
\* the id of an existing student record answers 400, the status of the
\* client errors, and leaves the student store unchanged.
C14_DuplicateProfileIsBadRequest ==
    [][(/\ Answers(CreateProfileOp)
        /\ RequiredSupplied(request.body)
        /\ HasStudent(mockStudents, Val(request.body.id)))
       => /\ response'.status = 400
          /\ mockStudents' = mockStudents]_vars

\* a complete body for the seeded profile user_123, refused
C14_Witness ==
    /\ request.op = CreateProfileOp
    /\ RequiredSupplied(request.body)
    /\ Val(request.body.id) = "user_123"
    /\ response.status = 400
    /\ Len(mockStudents) = Len(SeedStudents)

----------------------------------------------------------------------------
(* Properties of the error handling middleware *)

ErrorAnswered == request.op = ThrowsOp /\ response # NoResponse

\* C19 as stated: an uncaught error is answered 500, with the message of the
\* error in every mode other than production and a generic message in
\* production.
C19_MessageUnlessProduction ==
    ErrorAnswered =>
        /\ response.status = 500
        /\ nodeEnv # Some("production") => response.message = request.err
        /\ nodeEnv = Some("production") => response.message = "Something went wrong"

\* C19 as amended: an uncaught error is answered 500, with the message of the
\* error in development mode only and the generic message in every other
\* mode (production, test, NODE_ENV not set).
C19_MessageInDevelopmentOnly ==
    ErrorAnswered =>
        /\ response.status = 500
        /\ nodeEnv = Some("development") => response.message = request.err
        /\ nodeEnv # Some("development") => response.message = "Something went wrong"

\* an error answered in test mode, its message withheld
C19_Witness ==
    /\ ErrorAnswered
    /\ nodeEnv = Some("test")
    /\ request.err = "x.slice is not a function"
    /\ response.message = "Something went wrong"

----------------------------------------------------------------------------
(* Properties of GET /courses: the sort key that is not known *)

\* the query that differs from q in asking for the popularity order
AsPopular(q) == [q EXCEPT !.sortBy = Some("popular")]

\* C20: GET /courses with a sortBy value that is none of popular, rating,
\* newest, price-low and price-high returns the courses in descending
\* student_count order, the order sortBy=popular gives for the same filters
\* (a sortBy without a value, the empty string, is a request without sort key).
C20_UnknownKeyIsPopular ==
    (/\ CoursesAnswered
     /\ Present(request.query.sortBy)
     /\ Val(request.query.sortBy) # ""
     /\ Val(request.query.sortBy) \notin SortKeys)
    => /\ NonIncreasingStudentCount(filteredCourses)
       /\ NonIncreasingStudentCount(response.courses)
       /\ response.courses = CoursesResponse(mockCourses, AsPopular(request.query)).courses

\* sortBy=title on a store in ascending student_count order, answered with
\* the courses in the opposite order
C20_Witness ==
    /\ CoursesAnswered
    /\ request.query.sortBy = Some("title")
    /\ Len(mockCourses) = 3
    /\ ~NonIncreasingStudentCount(mockCourses)
    /\ Len(response.courses) = 3
    /\ response.courses[1].student_count > response.courses[3].student_count

----------------------------------------------------------------------------
(* Properties of the whole API *)

\* the ids of the courses of a list, in order
CourseIds(courses) == [i \in 1..Len(courses) |-> courses[i].id]

\* C15: on the seeded course store (course_1: price 99.99, Beginner,
\* featured; course_2: price 149.99, Advanced, featured), which no request
\* changes, GET /courses?level=Beginner returns exactly [course_1] with total
\* 1, GET /courses?sortBy=price-high returns [course_2, course_1] and GET
\* /courses/search?q=react returns exactly [course_2], after any sequence of
\* requests.
C15_SeedScenario ==
    /\ mockCourses = SeedCourses
    /\ CourseIds(mockCourses) = <<"course_1", "course_2">>
    /\ mockCourses[1].price = 9999 /\ mockCourses[1].level = "Beginner"
    /\ mockCourses[2].price = 14999 /\ mockCourses[2].level = "Advanced"
    /\ mockCourses[1].featured /\ mockCourses[2].featured
    /\ (request.op = "GET /courses" /\ request.query = LevelBeginner)
           => /\ response.status = 200
              /\ CourseIds(response.courses) = <<"course_1">>
              /\ response.total = 1
    /\ (request.op = "GET /courses" /\ request.query = SortByPriceHigh)
           => /\ response.status = 200
              /\ CourseIds(response.courses) = <<"course_2", "course_1">>
    /\ (request.op = SearchCoursesOp /\ request.query = SearchReact)
           => /\ response.status = 200
              /\ CourseIds(response.courses) = <<"course_2">>

\* the search for react answered after an enrollment and a profile were
\* created and a seeded enrollment was removed
C15_Witness ==
    /\ request.op = SearchCoursesOp /\ request.query = SearchReact
    /\ response.status = 200 /\ response.total = 1
    /\ Len(mockStudents) = 3
    /\ \E i \in 1..Len(mockEnrollments) : mockEnrollments[i].student_id = "user_789"
    /\ \A i \in 1..Len(mockEnrollments) : mockEnrollments[i].student_id # "user_123"

\* the records of store with the latest created_at, at most count of them:
\* every record left out is no later than any record taken
LatestOf(recent, store, count) ==
    /\ Len(recent) = Min(count, Len(store))
    /\ \A i \in 1..Len(recent) : \E j \in 1..Len(store) : recent[i] = store[j]
    /\ \A j \in 1..Len(store) :
           (\A i \in 1..Len(recent) : recent[i] # store[j])
               => \A i \in 1..Len(recent) : recent[i].created_at >= store[j].created_at

\* C16: GET /enrollments/stats, dispatched through the routes of the
\* enrollment router in registration order, is answered by the statistics
\* handler: status 200, total_enrollments the number of records of the store,
\* unique_students and unique_courses the numbers of distinct student_id and
\* course_id values, recent_enrollments the at most 10 latest records.
C16_StatsIsAnswered ==
    (request.op = GetEnrollmentsOp /\ request.path = <<Literal("stats")>>)
    => /\ request.handler = "stats"
       /\ response.status = 200
       /\ response.total_enrollments = Len(before)
       /\ response.unique_students =
              Cardinality({before[i].student_id : i \in 1..Len(before)})
       /\ response.unique_courses =
              Cardinality({before[i].course_id : i \in 1..Len(before)})
       /\ LatestOf(response.recent_enrollments, before, 10)

\* C17: GET /users/:userId/enrollments for an existing user returns exactly
\* the records of the enrollment store whose student_id is userId, and total
\* is their number, after any sequence of enrollment creations and deletions.
C17_UserEnrollmentsAreTheStores ==
    (request.op = UserEnrollmentsOp /\ response.status = 200)
    => LET own == SelectSeq(mockEnrollments,
                            LAMBDA e : e.student_id = request.userId)
       IN  /\ response.total = Len(own)
           /\ Len(response.enrollments) = Len(own)
           /\ \A i \in 1..Len(own) :
                  /\ response.enrollments[i].enrollment_id = own[i].id
                  /\ response.enrollments[i].course_id = own[i].course_id

\* the records of a store
RecordsOf(store) == {store[i] : i \in 1..Len(store)}

\* no student record is removed in the step, and a record changes only in a
\* PUT /users/profile/:userId, which keeps its id
StudentsKept ==
    /\ Len(mockStudents') >= Len(mockStudents)
    /\ \A i \in 1..Len(mockStudents) :
           \/ mockStudents'[i] = mockStudents[i]
           \/ /\ request'.op = PutProfileOp
              /\ mockStudents'[i].id = mockStudents[i].id

\* an enrollment record leaves the store only in a DELETE /:enrollmentId or
\* an unenroll, and a record that was not in the store is the one a POST
\* /enrollments has just created: no record is modified
EnrollmentsKept ==
    /\ \A e \in RecordsOf(mockEnrollments) :
           \/ e \in RecordsOf(mockEnrollments')
           \/ request'.op \in {DeleteOp, UnenrollOp}
    /\ \A e \in RecordsOf(mockEnrollments') :
           \/ e \in RecordsOf(mockEnrollments)
           \/ /\ request'.op = PostOp
              /\ response'.status = 201
              /\ e = response'.enrollment

\* C18: across any sequence of requests the user store and the course store
\* equal their seeded contents; no student record is removed and one changes
\* only through PUT /users/profile/:userId; an enrollment record is never
\* modified and is removed only by DELETE /enrollments/:enrollmentId or POST
\* /enrollments/student/:studentId/unenroll.
C18_Lifecycle ==
    /\ [](mockUsers = SeedUsers /\ mockCourses = SeedCourses)
    /\ [][StudentsKept /\ EnrollmentsKept]_vars

\* a state after a profile update, a profile creation, an enrollment
\* creation and the removal of both seeded enrollments
C18_Witness ==
    /\ mockStudents[1].display_name = JsString("Johnny")
    /\ Len(mockStudents) = 3
    /\ Len(mockEnrollments) = 1
    /\ mockEnrollments[1].student_id = "user_789"

----------------------------------------------------------------------------
(* Properties of the catalogue endpoints *)

\* a paged endpoint has answered with a page
PageAnswered ==
    /\ request.op \in {"GET /courses", SearchCoursesOp}
    /\ response.status = 200

\* p is floor(offset / limit) + 1, said without a division
IsFloorPlusOne(p, offset, limit) ==
    /\ limit * (p - 1) <= offset
    /\ offset < limit * p

\* C21 as stated: for every integer offset >= 0 and every integer limit >= 0
\* that GET /courses and GET /courses/search accept, the reported page is the
\* integer floor(offset/limit)+1 and is at least 1.
C21_PageIsFloorPlusOne ==
    LET offset == StartIndex(request.query)
        limit == LimitNum(request.query)
    IN  (PageAnswered /\ IsNum(offset) /\ IsNum(limit) /\ offset.v >= 0 /\ limit.v >= 0)
        => /\ IsNum(response.page)
           /\ response.page.v >= 1
           /\ IsFloorPlusOne(response.page.v, offset.v, limit.v)

\* C21 amended: for every integer offset >= 0 and every integer limit >= 1
\* the reported page is the integer floor(offset/limit)+1 and is at least 1;
\* for limit 0, which both handlers accept as well, the page is no integer:
\* it is NaN for offset 0 and Infinity for every larger offset.
C21_PageIsFloorPlusOneForPositiveLimit ==
    LET offset == StartIndex(request.query)
        limit == LimitNum(request.query)
    IN  (PageAnswered /\ IsNum(offset) /\ IsNum(limit) /\ offset.v >= 0)
        => /\ limit.v >= 1
              => /\ IsNum(response.page)
                 /\ response.page.v >= 1
                 /\ IsFloorPlusOne(response.page.v, offset.v, limit.v)
           /\ limit.v = 0
              => response.page = IF offset.v = 0 THEN NaN ELSE PosInfinity

\* the search answered for offset 3 and limit 2: page 2
C21_Witness ==
    /\ request.op = SearchCoursesOp
    /\ request.query.offset = Some(<<"3">>)
    /\ request.query.limit = Some(<<"2">>)
    /\ response.status = 200
    /\ response.page = Num(2)

\* C22: GET /courses/search without a q parameter, or with an empty q,
\* responds with status 400 and returns no course list, whatever limit and
\* offset are supplied.
C22_SearchNeedsQuery ==
    (/\ request.op = SearchCoursesOp
     /\ response # NoResponse
     /\ (~Present(request.query.q) \/ request.query.q = Some(<<>>)))
    => /\ response.status = 400
       /\ "courses" \notin DOMAIN response

\* an empty q with a limit and an offset, refused on a store with courses
C22_Witness ==
    /\ request.op = SearchCoursesOp
    /\ request.query.q = Some(<<>>)
    /\ Present(request.query.limit) /\ Present(request.query.offset)
    /\ Len(mockCourses) >= 2
    /\ response.status = 400

\* the courses of the store with the category
InCategory(store, category) ==
    {store[i] : i \in {j \in 1..Len(store) : store[j].category = category}}

\* C23: for a category value that no course in the store has, GET
\* /courses/category/:category responds with status 404, while GET
\* /courses?category=<the same value> responds with status 200, an empty
\* course list and total 0; for a category that some course has, both return
\* status 200 and, without limit, the same set of courses: the courses of the
\* store with that category.
C23_CategoryAsymmetry ==
    /\ (request.op = CategoryCoursesOp /\ response # NoResponse)
       => LET inCategory == InCategory(mockCourses, request.category)
          IN  /\ inCategory = {} => response.status = 404
              /\ inCategory # {} => response.status = 200
              /\ (inCategory # {} /\ ~Present(request.query.limit))
                 => ElementsOf(response.courses) = inCategory
    /\ (/\ request.op = "GET /courses" /\ response # NoResponse
        /\ Present(request.query.category)
        /\ ~Present(request.query.limit) /\ ~Present(request.query.offset))
       => LET inCategory == InCategory(mockCourses, Val(request.query.category))
          IN  /\ response.status = 200
              /\ inCategory = {} => response.courses = <<>> /\ response.total = 0
              /\ ElementsOf(response.courses) = inCategory

\* the category no course of a store with courses has, refused by path
C23_Witness ==
    /\ request.op = CategoryCoursesOp
    /\ request.category = "Jazz"
    /\ Len(mockCourses) >= 2
    /\ response.status = 404

\* C28 as stated: for GET /courses/category/:category with an existing
\* category the reported total equals the number of courses returned, that
\* is min(limit, number of courses in the category) when limit is supplied.
C28_CategoryTotalIsMinOfLimit ==
    (request.op = CategoryCoursesOp /\ response.status = 200)
    => LET n == Cardinality(InCategory(mockCourses, request.category))
       IN  /\ response.total = Len(response.courses)
           /\ (Present(request.query.limit)
               /\ IsNum(ParseInt(Val(request.query.limit))))
              => response.total = Min(ParseInt(Val(request.query.limit)).v, n)

\* C28 amended: the reported total equals the number of courses returned; it
\* is min(limit, n), n the number of courses in the category, when limit
\* reads as an integer >= 0, max(n - k, 0) when limit reads as -k, 0 when a
\* non-empty limit does not read as a number, and n when limit is absent or
\* empty.
C28_CategoryTotalCountsReturned ==
    (request.op = CategoryCoursesOp /\ response.status = 200)
    => LET n == Cardinality(InCategory(mockCourses, request.category))
           limit == request.query.limit
           limitNum == ParseInt(Val(limit))
       IN  /\ response.total = Len(response.courses)
           /\ (~Present(limit) \/ limit = Some(<<>>)) => response.total = n
           /\ (Present(limit) /\ limit # Some(<<>>))
              => response.total =
                     IF ~IsNum(limitNum) THEN 0
                     ELSE IF limitNum.v >= 0 THEN Min(limitNum.v, n)
                     ELSE Max(n + limitNum.v, 0)

\* two courses in the category and limit 1: total 1
C28_Witness ==
    /\ request.op = CategoryCoursesOp
    /\ request.query.limit = Some(<<"1">>)
    /\ Cardinality(InCategory(mockCourses, request.category)) = 2
    /\ response.status = 200
    /\ response.total = 1

----------------------------------------------------------------------------
(* Properties of the enrollment store: references and identifiers *)

\* the ids of the records of the three other stores
KnownIds(store) == {store[i].id : i \in 1..Len(store)}

\* C24: POST /enrollments with a non-empty student_id and course_id whose
\* pair is not yet in the enrollment store succeeds with status 201 and
\* stores the record, whether or not a user, a student or a course with
\* those identifiers exists.
C24_EnrollsWithoutReferents ==
    (/\ request.op = PostOp
     /\ Truthy(request.body.student_id) /\ Truthy(request.body.course_id)
     /\ PairCount(before, Val(request.body.student_id),
                  Val(request.body.course_id)) = 0)
    => /\ response.status = 201
       /\ response.enrollment.student_id = Val(request.body.student_id)
       /\ response.enrollment.course_id = Val(request.body.course_id)
       /\ mockEnrollments = Append(before, response.enrollment)

\* an enrollment has just been stored whose student is in neither the user
\* nor the student store and whose course is not in the course store
C24_Witness ==
    /\ request.op = PostOp
    /\ response.status = 201
    /\ \E i \in 1..Len(mockEnrollments) :
           /\ mockEnrollments[i] = response.enrollment
           /\ mockEnrollments[i].student_id \notin
                  KnownIds(mockUsers) \cup KnownIds(mockStudents)
           /\ mockEnrollments[i].course_id \notin KnownIds(mockCourses)

\* C26: every successful POST /enrollments gives the new record an
\* identifier different from the identifier of every record already in the
\* store, so that in every reachable state the enrollment identifiers are
\* pairwise distinct, also when two enrollments are created at the same
\* clock reading.
C26_EnrollmentIdsDistinct ==
    \A i, j \in 1..Len(mockEnrollments) :
        i # j => mockEnrollments[i].id # mockEnrollments[j].id

\* the query of GET /enrollments/check for the pair
CheckQuery(student_id, course_id) ==
    [NoEnrollmentQuery EXCEPT !.student_id = Some(student_id),
                              !.course_id = Some(course_id)]

\* the request of the step undoes the enrollment the last request created:
\* an unenroll with the same pair, or a DELETE with the returned identifier
UndoesCreated ==
    \/ /\ request'.op = UnenrollOp
       /\ request'.studentId = response.enrollment.student_id
       /\ request'.body.course_id = Some(response.enrollment.course_id)
    \/ /\ request'.op = DeleteOp
       /\ request'.enrollmentId = response.enrollment.id

\* C30: for a pair not in the enrollment store, a successful POST
\* /enrollments followed directly by the unenroll with the same pair, or by
\* DELETE /enrollments/:enrollmentId with the returned identifier, leaves the
\* store equal, in records and order, to its state before the two requests;
\* GET /enrollments/check for the pair reports is_enrolled true between the
\* two requests and false after them.
C30_EnrollThenUndoRestores ==
    [][(request.op = PostOp /\ response.status = 201 /\ UndoesCreated)
       => LET pair == CheckQuery(response.enrollment.student_id,
                                 response.enrollment.course_id)
          IN  /\ mockEnrollments' = before
              /\ CheckResponse(mockEnrollments, pair).is_enrolled
              /\ ~CheckResponse(mockEnrollments', pair).is_enrolled]_vars

----------------------------------------------------------------------------
(* Properties of the profile endpoints in sequence *)

\* the ids of the student store, in store order
StudentIds(store) == [i \in 1..Len(store) |-> store[i].id]

\* C27: in every state reachable by any sequence of POST
\* /users/create-profile and PUT /users/profile/:userId requests no two
\* records of the student store have the same id: create-profile is refused
\* when a record with the id exists, and an update never changes the id of a
\* record or the number of records.
C27_StudentIdsDistinct ==
    /\ [](\A i, j \in 1..Len(mockStudents) :
              i # j => mockStudents[i].id # mockStudents[j].id)
    /\ [][/\ request'.op = PutProfileOp
             => StudentIds(mockStudents') = StudentIds(mockStudents)
          /\ (/\ request'.op = CreateProfileOp
              /\ Present(request'.body.id)
              /\ HasStudent(mockStudents, Val(request'.body.id)))
             => /\ response'.status \notin {200, 201}
                /\ mockStudents' = mockStudents]_vars

\* a profile is refused for an id that was created and then updated
C27_Witness ==
    /\ request.op = CreateProfileOp
    /\ request.body.id = Some("user_789")
    /\ response.status = DuplicateProfileStatus
    /\ Len(mockStudents) = 3
    /\ mockStudents[3].id = "user_789"
    /\ mockStudents[3].display_name = JsString("Johnny")

\* C29: GET /users/profile/:userId succeeds exactly when the user store
\* holds a record with that id, and PUT /users/profile/:userId succeeds
\* exactly when the student store holds one; no operation adds a user and
\* none removes a student, so for an id that has a created profile and is
\* not a seeded user PUT responds 200 while GET responds 404 in every later
\* state.
C29_ProfileReadAndWriteDisagree ==
    /\ [](/\ mockUsers = SeedUsers
          /\ request.op = GetProfileOp
             => /\ response.status = 200 <=> request.userId \in KnownIds(mockUsers)
                /\ response.status \in {200, 404}
          /\ request.op = PutProfileOp
             => /\ response.status = 200 <=> request.userId \in KnownIds(mockStudents)
                /\ response.status \in {200, 404}
          /\ \A id \in KnownIds(mockStudents) \ KnownIds(SeedUsers) :
                 /\ (request.op = GetProfileOp /\ request.userId = id)
                    => response.status = 404
                 /\ (request.op = PutProfileOp /\ request.userId = id)
                    => response.status = 200)
    /\ [][KnownIds(mockStudents) \subseteq KnownIds(mockStudents')]_vars

\* the profile of user_789 was created and updated, and is not found by GET
C29_Witness ==
    /\ request.op = GetProfileOp
    /\ request.userId = "user_789"
    /\ HasStudent(mockStudents, "user_789")
    /\ \E i \in 1..Len(mockStudents) :
           /\ mockStudents[i].id = "user_789"
           /\ Present(mockStudents[i].updated_at)
    /\ response.status = 404

----------------------------------------------------------------------------
(* Properties of the read endpoints *)

GetOps == {GetEnrollmentsOp, GetCourseRouterOp, GetUserRouterOp, GetAppOp}

====
